---- MODULE Spec2Model ----
(***************************************************************************)
(* A model of the PEBBL runtime (kejunp/pebbl): the mark-and-sweep heap    *)
(* (src/src/runtime/gc.hpp, gc.cpp), the built-in object kinds, the        *)
(* Environment chain, the tree-walking evaluator and the bytecode VM.      *)
(***************************************************************************)
EXTENDS Integers, Sequences, FiniteSets, TLC

(***************************************************************************)
(* Bounds of the model.                                                    *)
(***************************************************************************)
MaxObjects == 3      \* objects alive at once when collect() is called at will
NumSlots == 2        \* GCObject* variables a caller may register as roots
MaxRoots == 2        \* longest roots_ vector explored
MaxElems == 1        \* longest PEBBLArray::elements explored
MaxArrays == 2       \* PEBBLArray objects alive at once
MaxEnvs == 2         \* Environment objects constructed
NumNames == 1        \* distinct variable names used with the Environment alone
MaxInt == 2          \* int32 values 1..MaxInt bound with the Environment alone
MaxAddresses == 12   \* heap addresses a run of a program may occupy at once
MaxProgram == 14     \* the programs run are Programs[1..MaxProgram]
MaxPayload == 1      \* the low payload bits of a word hold 0..MaxPayload
MaxNest == 2         \* nesting depth of if/else expressions and while loops compiled
DoubleScale == 2     \* a finite double is a multiple of 1 / DoubleScale
MaxDouble == 16      \* the largest finite double, in units of 1 / DoubleScale
MaxIterations == 3   \* iterations of the while loops of the loop programs
MaxCallDepth == 65   \* activations of evaluate_call the host stack holds before it overflows
MaxPushes == 257     \* LOAD_CONSTs of the longest chunk executed by the VM alone

NULL == 0
DANGLING == -1       \* any pointer whose object has been destroyed
InitialThreshold == 8

ObjIds == 1..(IF MaxObjects > MaxAddresses THEN MaxObjects ELSE MaxAddresses)
Slots == 1..NumSlots

VARIABLES
  objects_,        \* GCHeap::objects_ : the allocation list, head first
  object_count_,   \* GCHeap::object_count_
  next_gc_,        \* GCHeap::next_gc_
  roots_,          \* GCHeap::roots_ : registered GCObject** (slot names)
  slot,            \* the GCObject* each caller variable currently holds
  marked,          \* GCObject::marked of every address
  tag,             \* GCObject::tag of every address ("NONE" = no object there)
  elements,        \* PEBBLArray::elements of every address
  result,          \* the pointer returned by the last allocate call
  op,              \* the last heap operation that ran
  envs,            \* every Environment constructed: [parent_, variables_]
  envCall,         \* the last Environment call: its arguments and its outcome
  text,            \* PEBBLString::value / PEBBLBuiltinFunction::name of every address
  functions,       \* PEBBLFunction::parameters, closure and body of every address
  program,         \* the ProgramNode handed to Interpreter::execute
  path,            \* the Interpreter under run: "tree" or "bytecode" ("none" before)
  status,          \* "running", or how the run ended
  error_message,   \* the message of the runtime error that ended the run
  current_env_,    \* Interpreter::current_env_
  has_return_,     \* Interpreter::has_return_
  return_value_,   \* Interpreter::return_value_
  callStack,       \* the activations of Interpreter::evaluate / execute, innermost last
  retval,          \* the value the last activation returned
  output,          \* the lines written to stdout
  chunk,           \* the Chunk compiled from the program
  stack_,          \* VM::stack_
  frames_,         \* VM::frames_
  has_error_,      \* VM::has_error_
  treeOutcome,     \* the outcome of the tree-walker run, kept for the bytecode run
  bits,            \* PEBBLObject::bits of the value under test, bit 0 first
  made             \* the factory that made it ("word": any 64-bit word)

gcVars == <<objects_, object_count_, next_gc_, roots_, slot, marked, tag, elements, result, op>>

envVars == <<envs, envCall>>

execVars == <<text, functions, program, path, status, error_message, current_env_, has_return_,
              return_value_, callStack, retval, output, chunk, stack_, frames_, has_error_,
              treeOutcome, bits, made>>

vars == <<objects_, object_count_, next_gc_, roots_, slot, marked, tag, elements, result, op,
          envs, envCall, text, functions, program, path, status, error_message, current_env_, has_return_,
          return_value_, callStack, retval, output, chunk, stack_, frames_, has_error_,
          treeOutcome, bits, made>>

\* a value computed once and named: F(v)
With(v, F(_)) == F(v)

(***************************************************************************)
(* Values (PEBBLObject): a tagged word.                                    *)
(***************************************************************************)
make_gc_ptr(ptr) == [t |-> "GC_PTR", v |-> ptr]
make_null == [t |-> "NIL", v |-> 0]
make_int32(n) == [t |-> "INT32", v |-> n]
is_gc_ptr(x) == x.t = "GC_PTR"
is_null(x) == x.t = "NIL"
as_gc_ptr(x) == x.v
make_bool(b) == [t |-> "BOOL", v |-> IF b THEN 1 ELSE 0]
is_bool(x) == x.t = "BOOL"
as_bool(x) == x.v = 1
is_int32(x) == x.t = "INT32"
as_int32(x) == x.v

(***************************************************************************)
(* Doubles.  A double is finite (n units of 1 / DoubleScale, at most       *)
(* MaxDouble of them in magnitude), an infinity (n is its sign) or a NaN.  *)
(* The doubles are spaced MaxDouble apart at the top of the range: an      *)
(* exact result beyond MaxDouble rounds to MaxDouble, and from twice       *)
(* MaxDouble on it rounds to an infinity.                                  *)
(***************************************************************************)
Finite(n) == [k |-> "fin", n |-> n]
Infinity(sign) == [k |-> "inf", n |-> sign]
NaN == [k |-> "nan", n |-> 0]

Sign(n) == IF n < 0 THEN -1 ELSE 1

Rounded(n) ==
  IF n >= 2 * MaxDouble THEN Infinity(1)
  ELSE IF n <= -(2 * MaxDouble) THEN Infinity(-1)
  ELSE IF n > MaxDouble THEN Finite(MaxDouble)
  ELSE IF n < -MaxDouble THEN Finite(-MaxDouble)
  ELSE Finite(n)

\* static_cast<double>(int32_t)
Widened(n) == Finite(n * DoubleScale)

DoubleNegate(a) == IF a.k = "nan" THEN NaN ELSE [a EXCEPT !.n = -@]

DoubleAdd(a, b) ==
  IF a.k = "nan" \/ b.k = "nan" THEN NaN
  ELSE IF a.k = "inf" THEN (IF b.k = "inf" /\ b.n # a.n THEN NaN ELSE a)
  ELSE IF b.k = "inf" THEN b
  ELSE Rounded(a.n + b.n)

DoubleSubtract(a, b) == DoubleAdd(a, DoubleNegate(b))

DoubleMultiply(a, b) ==
  IF a.k = "nan" \/ b.k = "nan" THEN NaN
  ELSE IF a.k = "inf" \/ b.k = "inf"
  THEN (IF a = Finite(0) \/ b = Finite(0) THEN NaN ELSE Infinity(Sign(a.n) * Sign(b.n)))
  ELSE Rounded((a.n * b.n) \div DoubleScale)

DoubleDivide(a, b) ==
  IF a.k = "nan" \/ b.k = "nan" THEN NaN
  ELSE IF a.k = "inf"
  THEN (IF b.k = "inf" THEN NaN ELSE Infinity(Sign(a.n) * Sign(b.n)))
  ELSE IF b.k = "inf" THEN Finite(0)
  ELSE IF b.n = 0 THEN (IF a.n = 0 THEN NaN ELSE Infinity(Sign(a.n)))
  ELSE Rounded((a.n * DoubleScale) \div b.n)

\* the place of a double that is no NaN on the extended number line
Place(a) == IF a.k = "inf" THEN a.n * (MaxDouble + 1) ELSE a.n

DoubleEqual(a, b) == a.k # "nan" /\ b.k # "nan" /\ Place(a) = Place(b)

DoubleLess(a, b) == a.k # "nan" /\ b.k # "nan" /\ Place(a) < Place(b)

\* make_double copies the bits of the double.  is_double is
\* (bits & EXP_MASK) != EXP_MASK, which holds of the finite doubles only: the
\* word of an infinity and the word of a NaN are words of no variant.
make_double(d) ==
  IF d.k = "fin" THEN [t |-> "DOUBLE", v |-> d.n]
  ELSE IF d.k = "inf" THEN [t |-> "INFINITY", v |-> d.n]
  ELSE [t |-> "NAN", v |-> 0]

is_double(x) == x.t = "DOUBLE"

\* as_double copies the bits back: every boxed word has the exponent field
\* all ones and the quiet bit set, which is a NaN
as_double(x) ==
  IF x.t = "DOUBLE" THEN Finite(x.v)
  ELSE IF x.t = "INFINITY" THEN Infinity(x.v)
  ELSE NaN

Range(s) == {s[i] : i \in 1..Len(s)}
Front(s) == SubSeq(s, 1, Len(s) - 1)
Last(s) == s[Len(s)]
Min(S) == CHOOSE x \in S : \A y \in S : x <= y

(***************************************************************************)
(* PEBBLObject as the 64-bit word it is (src/src/runtime/object): a word   *)
(* is a function from the bit positions 0..63 to 0..1.                     *)
(***************************************************************************)
BitPositions == 0..63

BitsBetween(lo, hi) == [i \in BitPositions |-> IF lo <= i /\ i <= hi THEN 1 ELSE 0]

BitAnd(a, b) == [i \in BitPositions |-> a[i] * b[i]]

BitOr(a, b) == [i \in BitPositions |-> IF a[i] = 1 \/ b[i] = 1 THEN 1 ELSE 0]

\* static_cast<uint64_t>(n) of an n >= 0 that fits 31 bits, shifted left by k
ShiftLeft(n, k) ==
  [i \in BitPositions |-> IF i >= k /\ i - k <= 30 THEN (n \div 2^(i - k)) % 2 ELSE 0]

\* static_cast<uint64_t>(value) of an int32_t: two's complement, sign-extended
Int32ToUint64(n) ==
  IF n >= 0 THEN ShiftLeft(n, 0)
  ELSE [i \in BitPositions |-> IF i <= 30 THEN (((n + 2147483647) + 1) \div 2^i) % 2 ELSE 1]

\* the number a word's bits lo..hi spell, shifted right by lo
ShiftRight(w, lo) == w[lo] + 2 * w[lo + 1] + 4 * w[lo + 2]

EXP_MASK == BitsBetween(52, 62)
QNAN_MASK == BitsBetween(51, 51)
BOXED_BASE == BitOr(EXP_MASK, QNAN_MASK)
TAG_MASK == BitsBetween(48, 50)
TAG_SHIFT == 48
PAYLOAD_MASK == BitsBetween(0, 47)

Tag_GC_PTR == 1
Tag_INT32 == 2
Tag_BOOL == 3
Tag_NIL == 4
Tag_UNDEFINED == 5

\* a double given by its IEEE 754 fields: memcpy keeps its bits as they are
PEBBLObject_make_double(value) == value

PEBBLObject_make_int32(value) ==
  BitOr(BitOr(BOXED_BASE, ShiftLeft(Tag_INT32, TAG_SHIFT)),
        BitAnd(Int32ToUint64(value), PAYLOAD_MASK))

PEBBLObject_make_bool(value) ==
  BitOr(BitOr(BOXED_BASE, ShiftLeft(Tag_BOOL, TAG_SHIFT)),
        ShiftLeft(IF value THEN 1 ELSE 0, 0))

PEBBLObject_make_null == BitOr(BOXED_BASE, ShiftLeft(Tag_NIL, TAG_SHIFT))

PEBBLObject_make_undefined == BitOr(BOXED_BASE, ShiftLeft(Tag_UNDEFINED, TAG_SHIFT))

\* ptr is the address as a number
PEBBLObject_make_gc_ptr(ptr) ==
  BitOr(BitOr(BOXED_BASE, ShiftLeft(Tag_GC_PTR, TAG_SHIFT)),
        BitAnd(ShiftLeft(ptr, 0), PAYLOAD_MASK))

PEBBLObject_is_double(w) == BitAnd(w, EXP_MASK) # EXP_MASK

PEBBLObject_is_boxed(w) == BitAnd(w, BOXED_BASE) = BOXED_BASE

PEBBLObject_get_tag(w) == ShiftRight(BitAnd(w, TAG_MASK), TAG_SHIFT)

PEBBLObject_is_int32(w) == PEBBLObject_is_boxed(w) /\ PEBBLObject_get_tag(w) = Tag_INT32

PEBBLObject_is_bool(w) == PEBBLObject_is_boxed(w) /\ PEBBLObject_get_tag(w) = Tag_BOOL

PEBBLObject_is_null(w) == PEBBLObject_is_boxed(w) /\ PEBBLObject_get_tag(w) = Tag_NIL

PEBBLObject_is_undefined(w) ==
  PEBBLObject_is_boxed(w) /\ PEBBLObject_get_tag(w) = Tag_UNDEFINED

PEBBLObject_is_gc_ptr(w) == PEBBLObject_is_boxed(w) /\ PEBBLObject_get_tag(w) = Tag_GC_PTR

\* the word with the given sign bit, exponent field, quiet-NaN bit, tag field
\* and low payload
Word(sign, exponent, quiet, t, payload) ==
  [i \in BitPositions |->
     IF i = 63 THEN sign
     ELSE IF i >= 52 THEN (exponent \div 2^(i - 52)) % 2
     ELSE IF i = 51 THEN quiet
     ELSE IF i >= 48 THEN (t \div 2^(i - 48)) % 2
     ELSE IF i <= 30 THEN (payload \div 2^i) % 2
     ELSE 0]

Exponents == {0, 1023, 2046, 2047}

Words ==
  {Word(sign, exponent, quiet, t, payload) :
     sign \in 0..1, exponent \in Exponents, quiet \in 0..1, t \in 0..7,
     payload \in 0..MaxPayload}

\* doubles, by their bits: 0.0, 1.0, the largest finite, +inf, -inf, the NaN
\* of 0.0 / 0.0 (quiet, either sign) and a signalling NaN
Doubles ==
  {Word(0, 0, 0, 0, 0), Word(0, 1023, 0, 0, 0), Word(0, 2046, 1, 7, MaxPayload),
   Word(0, 2047, 0, 0, 0), Word(1, 2047, 0, 0, 0),
   Word(0, 2047, 1, 0, 0), Word(1, 2047, 1, 0, 0), Word(0, 2047, 0, 0, 1)}

Int32s == {-2147483647, -1, 0, 1, 2147483647}

Pointers == {0, 8, 16}

InitValue == bits = Word(0, 0, 0, 0, 0) /\ made = "default"

\* the state of the heap, the Environments and the Interpreter
runVars == <<gcVars, envVars, text, functions, program, path, status, error_message, current_env_,
             has_return_, return_value_, callStack, retval, output, chunk, stack_,
             frames_, has_error_, treeOutcome>>

MakeDouble(value) ==
  /\ bits' = PEBBLObject_make_double(value)
  /\ made' = "make_double"
  /\ UNCHANGED runVars

MakeInt32(value) ==
  /\ bits' = PEBBLObject_make_int32(value)
  /\ made' = "make_int32"
  /\ UNCHANGED runVars

MakeBool(value) ==
  /\ bits' = PEBBLObject_make_bool(value)
  /\ made' = "make_bool"
  /\ UNCHANGED runVars

MakeNull ==
  /\ bits' = PEBBLObject_make_null
  /\ made' = "make_null"
  /\ UNCHANGED runVars

MakeUndefined ==
  /\ bits' = PEBBLObject_make_undefined
  /\ made' = "make_undefined"
  /\ UNCHANGED runVars

MakeGcPtr(ptr) ==
  /\ bits' = PEBBLObject_make_gc_ptr(ptr)
  /\ made' = "make_gc_ptr"
  /\ UNCHANGED runVars

NextValue ==
  \/ \E value \in Doubles : MakeDouble(value)
  \/ \E value \in Int32s : MakeInt32(value)
  \/ \E value \in BOOLEAN : MakeBool(value)
  \/ MakeNull
  \/ MakeUndefined
  \/ \E ptr \in Pointers : MakeGcPtr(ptr)

(***************************************************************************)
(* trace(): the heap pointers an object hands to Tracer::mark, in order.   *)
(***************************************************************************)
RECURSIVE PtrsOf(_)
PtrsOf(vals) ==
  IF vals = <<>> THEN <<>>
  ELSE IF is_gc_ptr(Head(vals)) THEN <<as_gc_ptr(Head(vals))>> \o PtrsOf(Tail(vals))
  ELSE PtrsOf(Tail(vals))

\* an array whose trace forgets its elements
PEBBLArray_traceNothing(g, o) == <<>>

PEBBLArray_trace(g, o) == PtrsOf(g.elements[o])

PEBBLString_trace(g, o) == <<>>

trace(g, o) ==
  IF g.tag[o] = "ARRAY" THEN PEBBLArray_trace(g, o)
  ELSE PEBBLString_trace(g, o)

(***************************************************************************)
(* Tracer::mark.  st = [marked, worklist]; g = [tag, elements].            *)
(***************************************************************************)
RECURSIVE Tracer_mark(_, _, _)
RECURSIVE DrainWorklist(_, _)
RECURSIVE TraceEach(_, _, _)

TraceEach(g, st, ptrs) ==
  IF ptrs = <<>> THEN st
  ELSE TraceEach(g, Tracer_mark(g, st, Head(ptrs)), Tail(ptrs))

DrainWorklist(g, st) ==
  IF st.worklist = <<>> THEN st
  ELSE LET current == Last(st.worklist)
           popped == [st EXCEPT !.worklist = Front(st.worklist)]
       IN DrainWorklist(g, TraceEach(g, popped, trace(g, current)))

Tracer_mark(g, st, obj) ==
  IF obj = NULL \/ st.marked[obj] THEN st
  ELSE DrainWorklist(g, [marked |-> [st.marked EXCEPT ![obj] = TRUE],
                         worklist |-> Append(st.worklist, obj)])

(***************************************************************************)
(* GCHeap::mark over the pointers the roots hold (null roots skipped).     *)
(***************************************************************************)
RECURSIVE MarkRoots(_, _, _)
MarkRoots(g, st, ptrs) ==
  IF ptrs = <<>> THEN st
  ELSE IF Head(ptrs) # NULL THEN MarkRoots(g, Tracer_mark(g, st, Head(ptrs)), Tail(ptrs))
  ELSE MarkRoots(g, st, Tail(ptrs))

GCHeap_mark(h, ptrs) ==
  MarkRoots([tag |-> h.tag, elements |-> h.elements],
            [marked |-> h.marked, worklist |-> <<>>], ptrs).marked

(***************************************************************************)
(* The invocations of Tracer::mark active at once.  Each operator follows  *)
(* its namesake above and returns, with the tracer state, the deepest      *)
(* nesting of mark calls reached below it: mark drains the work list       *)
(* before it returns, and trace calls mark from inside that loop.  The     *)
(* state also lists, in st.traced, the objects handed to trace.            *)
(***************************************************************************)
RECURSIVE Tracer_markNesting(_, _, _)
RECURSIVE DrainWorklistNesting(_, _)
RECURSIVE TraceEachNesting(_, _, _)

Deeper(a, b) == IF a >= b THEN a ELSE b

TraceEachNesting(g, st, ptrs) ==
  IF ptrs = <<>> THEN [st |-> st, depth |-> 0]
  ELSE With(Tracer_markNesting(g, st, Head(ptrs)), LAMBDA first :
         With(TraceEachNesting(g, first.st, Tail(ptrs)), LAMBDA rest :
           [st |-> rest.st, depth |-> Deeper(first.depth, rest.depth)]))

DrainWorklistNesting(g, st) ==
  IF st.worklist = <<>> THEN [st |-> st, depth |-> 0]
  ELSE With(TraceEachNesting(g, [st EXCEPT !.worklist = Front(st.worklist),
                                           !.traced = Append(@, Last(st.worklist))],
                             trace(g, Last(st.worklist))),
            LAMBDA traced :
         With(DrainWorklistNesting(g, traced.st), LAMBDA rest :
           [st |-> rest.st, depth |-> Deeper(traced.depth, rest.depth)]))

\* a mark that hands an object that is already marked to trace once more
Tracer_markNestingRetracing(g, st, obj) ==
  IF obj = NULL THEN [st |-> st, depth |-> 1]
  ELSE IF st.marked[obj] THEN [st |-> [st EXCEPT !.traced = Append(@, obj)], depth |-> 1]
  ELSE With(DrainWorklistNesting(g, [st EXCEPT !.marked[obj] = TRUE,
                                               !.worklist = Append(@, obj)]),
            LAMBDA drained : [st |-> drained.st, depth |-> 1 + drained.depth])

\* the call itself is one invocation, whether it returns at once or not
Tracer_markNesting(g, st, obj) ==
  IF obj = NULL \/ st.marked[obj] THEN [st |-> st, depth |-> 1]
  ELSE With(DrainWorklistNesting(g, [st EXCEPT !.marked[obj] = TRUE,
                                               !.worklist = Append(@, obj)]),
            LAMBDA drained : [st |-> drained.st, depth |-> 1 + drained.depth])

RECURSIVE MarkRootsNesting(_, _, _)
MarkRootsNesting(g, st, ptrs) ==
  IF ptrs = <<>> THEN [st |-> st, depth |-> 0]
  ELSE IF Head(ptrs) # NULL
  THEN With(Tracer_markNesting(g, st, Head(ptrs)), LAMBDA first :
         With(MarkRootsNesting(g, first.st, Tail(ptrs)), LAMBDA rest :
           [st |-> rest.st, depth |-> Deeper(first.depth, rest.depth)]))
  ELSE MarkRootsNesting(g, st, Tail(ptrs))

\* GCHeap::mark: the marks it leaves and the deepest nesting it reached
GCHeap_markNesting(h, ptrs) ==
  MarkRootsNesting([tag |-> h.tag, elements |-> h.elements],
                   [marked |-> h.marked, worklist |-> <<>>, traced |-> <<>>], ptrs)

(***************************************************************************)
(* GCHeap::sweep: walk the list, unlink and delete the unmarked, clear     *)
(* the mark of the others and count them.                                  *)
(***************************************************************************)
\* a sweep that, after deleting an object, steps over its successor unexamined
RECURSIVE SweepWalkSkipping(_, _)
SweepWalkSkipping(rest, acc) ==
  IF rest = <<>> THEN acc
  ELSE LET obj == Head(rest) IN
       IF acc.marked[obj]
       THEN SweepWalkSkipping(Tail(rest), [acc EXCEPT !.marked[obj] = FALSE,
                                                      !.kept = Append(@, obj),
                                                      !.alive_count = @ + 1])
       ELSE IF Len(rest) >= 2
       THEN SweepWalkSkipping(Tail(Tail(rest)),
                              [acc EXCEPT !.deleted = @ \cup {obj},
                                          !.kept = Append(@, rest[2]),
                                          !.alive_count = @ + 1])
       ELSE SweepWalkSkipping(Tail(rest), [acc EXCEPT !.deleted = @ \cup {obj}])

\* a sweep that leaves the mark of the survivors set
RECURSIVE SweepWalkKeepingMarks(_, _)
SweepWalkKeepingMarks(rest, acc) ==
  IF rest = <<>> THEN acc
  ELSE LET obj == Head(rest) IN
       IF acc.marked[obj]
       THEN SweepWalkKeepingMarks(Tail(rest), [acc EXCEPT !.kept = Append(@, obj),
                                                          !.alive_count = @ + 1])
       ELSE SweepWalkKeepingMarks(Tail(rest), [acc EXCEPT !.deleted = @ \cup {obj}])

RECURSIVE SweepWalk(_, _)
SweepWalk(rest, acc) ==
  IF rest = <<>> THEN acc
  ELSE LET obj == Head(rest) IN
       IF acc.marked[obj]
       THEN SweepWalk(Tail(rest), [acc EXCEPT !.marked[obj] = FALSE,
                                              !.kept = Append(@, obj),
                                              !.alive_count = @ + 1])
       ELSE SweepWalk(Tail(rest), [acc EXCEPT !.deleted = @ \cup {obj}])

\* a sweep that leaves object_count_ as it was
GCHeap_sweepUncounted(h) ==
  With(SweepWalk(h.objects_, [marked |-> h.marked, kept |-> <<>>,
                              alive_count |-> 0, deleted |-> {}]),
       LAMBDA r :
         [h EXCEPT !.objects_ = r.kept,
                   !.marked = [o \in ObjIds |-> IF o \in r.deleted THEN FALSE ELSE r.marked[o]],
                   !.tag = [o \in ObjIds |-> IF o \in r.deleted THEN "NONE" ELSE h.tag[o]],
                   !.elements = [o \in ObjIds |-> IF o \in r.deleted THEN <<>> ELSE h.elements[o]]])

GCHeap_sweep(h) ==
  With(SweepWalk(h.objects_, [marked |-> h.marked, kept |-> <<>>,
                              alive_count |-> 0, deleted |-> {}]),
       LAMBDA r :
         [h EXCEPT !.objects_ = r.kept,
                   !.marked = [o \in ObjIds |-> IF o \in r.deleted THEN FALSE ELSE r.marked[o]],
                   !.tag = [o \in ObjIds |-> IF o \in r.deleted THEN "NONE" ELSE h.tag[o]],
                   !.elements = [o \in ObjIds |-> IF o \in r.deleted THEN <<>> ELSE h.elements[o]],
                   !.object_count_ = r.alive_count])

(***************************************************************************)
(* GCHeap::collect: mark, sweep, then the next threshold.                  *)
(***************************************************************************)
\* a threshold that never drops below the initial one
NextThresholdFloored(count) == IF count * 2 > InitialThreshold THEN count * 2 ELSE InitialThreshold

NextThreshold(count) == count * 2

GCHeap_collect(h, ptrs) ==
  With(GCHeap_sweep([h EXCEPT !.marked = GCHeap_mark(h, ptrs)]),
       LAMBDA swept : [swept EXCEPT !.next_gc_ = NextThreshold(swept.object_count_)])

(***************************************************************************)
(* GCHeap::allocate<T>: new T, link at the head, count, collect when the   *)
(* count reached next_gc_, return the pointer.                             *)
(***************************************************************************)
FreeAddresses(h) == ObjIds \ Range(h.objects_)

GCHeap_allocate(h, ptrs, obj, kind, elems) ==
  With([h EXCEPT !.objects_ = <<obj>> \o h.objects_,
                 !.tag[obj] = kind,
                 !.elements[obj] = elems,
                 !.marked[obj] = FALSE,
                 !.object_count_ = @ + 1],
       LAMBDA linked :
         IF linked.object_count_ >= linked.next_gc_
         THEN [heap |-> GCHeap_collect(linked, ptrs), obj |-> obj, collected |-> TRUE]
         ELSE [heap |-> linked, obj |-> obj, collected |-> FALSE])

(***************************************************************************)
(* The heap on its own: allocate, add_root, remove_root, collect, and the  *)
(* callers' writes to their root variables and to arrays.                  *)
(***************************************************************************)
Heap == [objects_ |-> objects_, object_count_ |-> object_count_, next_gc_ |-> next_gc_,
         marked |-> marked, tag |-> tag, elements |-> elements]

RootPtrs == [i \in 1..Len(roots_) |-> slot[roots_[i]]]

\* what a pointer held outside the heap is worth once the heap is h
Validity(p, h) == IF p = NULL \/ p \in Range(h.objects_) THEN p ELSE DANGLING

InitHeap ==
  /\ objects_ = <<>>
  /\ object_count_ = 0
  /\ next_gc_ = InitialThreshold
  /\ roots_ = <<>>
  /\ slot = [s \in Slots |-> NULL]
  /\ marked = [o \in ObjIds |-> FALSE]
  /\ tag = [o \in ObjIds |-> "NONE"]
  /\ elements = [o \in ObjIds |-> <<>>]
  /\ result = NULL
  /\ op = "init"

SetHeap(h) ==
  /\ objects_' = h.objects_
  /\ object_count_' = h.object_count_
  /\ next_gc_' = h.next_gc_
  /\ marked' = h.marked
  /\ tag' = h.tag
  /\ elements' = h.elements
  /\ slot' = [s \in Slots |-> Validity(slot[s], h)]

Allocate(kind, maxLive) ==
  /\ Len(objects_) < maxLive
  /\ kind = "ARRAY" => Cardinality({o \in Range(objects_) : tag[o] = "ARRAY"}) < MaxArrays
  /\ \E r \in {GCHeap_allocate(Heap, RootPtrs, Min(FreeAddresses(Heap)), kind, <<>>)} :
       /\ SetHeap(r.heap)
       /\ result' = Validity(r.obj, r.heap)
       /\ op' = IF r.collected THEN "allocate_gc" ELSE "allocate"
  /\ UNCHANGED <<roots_, envVars, execVars>>

AddRoot(s) ==
  /\ Len(roots_) < MaxRoots
  /\ slot[s] = NULL \/ slot[s] \in Range(objects_)
  /\ roots_' = Append(roots_, s)
  /\ op' = "mutate"
  /\ UNCHANGED <<objects_, object_count_, next_gc_, slot, marked, tag, elements, result, envVars, execVars>>

RemoveRoot(s) ==
  /\ roots_' = SelectSeq(roots_, LAMBDA r : r # s)
  /\ op' = "mutate"
  /\ UNCHANGED <<objects_, object_count_, next_gc_, slot, marked, tag, elements, result, envVars, execVars>>

SetSlot(s, p) ==
  /\ p = NULL \/ p \in Range(objects_)
  /\ slot' = [slot EXCEPT ![s] = p]
  /\ op' = "mutate"
  /\ UNCHANGED <<objects_, object_count_, next_gc_, roots_, marked, tag, elements, result, envVars, execVars>>

ArrayPush(a, p) ==
  /\ a \in Range(objects_) /\ tag[a] = "ARRAY"
  /\ p \in Range(objects_)
  /\ Len(elements[a]) < MaxElems
  /\ elements' = [elements EXCEPT ![a] = Append(@, make_gc_ptr(p))]
  /\ op' = "mutate"
  /\ UNCHANGED <<objects_, object_count_, next_gc_, roots_, slot, marked, tag, result, envVars, execVars>>

Collect ==
  /\ \E h \in {GCHeap_collect(Heap, RootPtrs)} :
       /\ SetHeap(h)
       /\ result' = Validity(result, h)
  /\ op' = IF op \in {"collect", "collect2"} THEN "collect2" ELSE "collect"
  /\ UNCHANGED <<roots_, envVars, execVars>>

NextHeap ==
  \/ \E kind \in {"STRING", "ARRAY"} : Allocate(kind, MaxObjects)
  \/ \E s \in Slots : AddRoot(s)
  \/ \E s \in Slots : RemoveRoot(s)
  \/ \E s \in Slots, p \in ObjIds \cup {NULL} : SetSlot(s, p)
  \/ \E a \in ObjIds, p \in ObjIds : ArrayPush(a, p)
  \/ Collect


(***************************************************************************)
(* Environment (src/src/runtime/evaluator/environment.cpp).  A store E is  *)
(* the sequence of the Environment objects constructed so far; an          *)
(* Environment is named by its index, its parent_ is an index or NULL.     *)
(***************************************************************************)
Names == {"x", "y", "z"}
EnvNames == IF NumNames = 1 THEN {"x"} ELSE IF NumNames = 2 THEN {"x", "y"} ELSE Names
EnvValues == {make_int32(n) : n \in 1..MaxInt}

NoVariables == [n \in {} |-> 0]

Variable(val, mut) == [value |-> val, is_mutable |-> mut]

Environment(parent) == [parent_ |-> parent, variables_ |-> NoVariables]

Binds(E, e, name) == name \in DOMAIN E[e].variables_

\* std::unordered_map::insert_or_assign in place of emplace
Env_defineOverwriting(E, e, name, value, is_mutable) ==
  [E EXCEPT ![e].variables_ =
     [n \in DOMAIN E[e].variables_ \cup {name} |->
        IF n = name THEN Variable(value, is_mutable) ELSE E[e].variables_[n]]]

\* define: variables_.emplace, which inserts only when the key is absent
Env_define(E, e, name, value, is_mutable) ==
  IF Binds(E, e, name) THEN E
  ELSE [E EXCEPT ![e].variables_ =
          [n \in DOMAIN E[e].variables_ \cup {name} |->
             IF n = name THEN Variable(value, is_mutable) ELSE E[e].variables_[n]]]

\* a get that looks in the frame itself only
Env_getLocal(E, e, name) ==
  IF Binds(E, e, name) THEN [error |-> "none", value |-> E[e].variables_[name].value]
  ELSE [error |-> "UndefinedName", value |-> make_null]

RECURSIVE Env_get(_, _, _)
Env_get(E, e, name) ==
  IF Binds(E, e, name) THEN [error |-> "none", value |-> E[e].variables_[name].value]
  ELSE IF E[e].parent_ # NULL THEN Env_get(E, E[e].parent_, name)
  ELSE [error |-> "UndefinedName", value |-> make_null]

\* a set that assigns whatever the mutability of the binding
RECURSIVE Env_setUnchecked(_, _, _, _)
Env_setUnchecked(E, e, name, value) ==
  IF Binds(E, e, name)
  THEN [error |-> "none", envs |-> [E EXCEPT ![e].variables_[name].value = value]]
  ELSE IF E[e].parent_ # NULL THEN Env_setUnchecked(E, E[e].parent_, name, value)
  ELSE [error |-> "UndefinedName", envs |-> E]

\* a set that binds the name in the outermost frame when no frame binds it
RECURSIVE Env_setCreating(_, _, _, _)
Env_setCreating(E, e, name, value) ==
  IF Binds(E, e, name)
  THEN IF ~E[e].variables_[name].is_mutable
       THEN [error |-> "ImmutableAssignment", envs |-> E]
       ELSE [error |-> "none", envs |-> [E EXCEPT ![e].variables_[name].value = value]]
  ELSE IF E[e].parent_ # NULL THEN Env_setCreating(E, E[e].parent_, name, value)
  ELSE [error |-> "none",
        envs |-> [E EXCEPT ![e].variables_ =
                    [n \in DOMAIN E[e].variables_ \cup {name} |->
                       IF n = name THEN Variable(value, TRUE) ELSE E[e].variables_[n]]]]

\* set: "Cannot assign to immutable variable" is ImmutableAssignment,
\* "Undefined variable" is UndefinedName
RECURSIVE Env_set(_, _, _, _)
Env_set(E, e, name, value) ==
  IF Binds(E, e, name)
  THEN IF ~E[e].variables_[name].is_mutable
       THEN [error |-> "ImmutableAssignment", envs |-> E]
       ELSE [error |-> "none", envs |-> [E EXCEPT ![e].variables_[name].value = value]]
  ELSE IF E[e].parent_ # NULL THEN Env_set(E, E[e].parent_, name, value)
  ELSE [error |-> "UndefinedName", envs |-> E]

RECURSIVE Env_exists(_, _, _)
Env_exists(E, e, name) ==
  IF Binds(E, e, name) THEN TRUE
  ELSE IF E[e].parent_ # NULL THEN Env_exists(E, E[e].parent_, name)
  ELSE FALSE

(***************************************************************************)
(* The Environment on its own: construction and the four operations.       *)
(***************************************************************************)
NoCall == [op |-> "none", env |-> NULL, name |-> "", error |-> "none", found |-> make_null]

InitEnv ==
  /\ envs = <<>>
  /\ envCall = NoCall

NewEnvironment(parent) ==
  /\ Len(envs) < MaxEnvs
  /\ envs' = Append(envs, Environment(parent))
  /\ envCall' = [NoCall EXCEPT !.op = "new", !.env = Len(envs) + 1]
  /\ UNCHANGED <<gcVars, execVars>>

Define(e, name, value, is_mutable) ==
  /\ envs' = Env_define(envs, e, name, value, is_mutable)
  /\ envCall' = [NoCall EXCEPT !.op = "define", !.env = e, !.name = name]
  /\ UNCHANGED <<gcVars, execVars>>

Get(e, name) ==
  /\ envCall' = [NoCall EXCEPT !.op = "get", !.env = e, !.name = name,
                               !.error = Env_get(envs, e, name).error,
                               !.found = Env_get(envs, e, name).value]
  /\ UNCHANGED <<envs, gcVars, execVars>>

Set(e, name, value) ==
  /\ envs' = Env_set(envs, e, name, value).envs
  /\ envCall' = [NoCall EXCEPT !.op = "set", !.env = e, !.name = name,
                               !.error = Env_set(envs, e, name, value).error]
  /\ UNCHANGED <<gcVars, execVars>>

Exists(e, name) ==
  /\ envCall' = [NoCall EXCEPT !.op = "exists", !.env = e, !.name = name,
                               !.found = [t |-> "BOOL", v |-> Env_exists(envs, e, name)]]
  /\ UNCHANGED <<envs, gcVars, execVars>>

EnvIds == 1..Len(envs)

NextEnv ==
  \/ \E parent \in EnvIds \cup {NULL} : NewEnvironment(parent)
  \/ \E e \in EnvIds, name \in EnvNames, value \in EnvValues, m \in BOOLEAN :
       Define(e, name, value, m)
  \/ \E e \in EnvIds, name \in EnvNames : Get(e, name)
  \/ \E e \in EnvIds, name \in EnvNames, value \in EnvValues : Set(e, name, value)
  \/ \E e \in EnvIds, name \in EnvNames : Exists(e, name)


(***************************************************************************)
(* Programs: the AST (src/src/parser/ast_generation/ast.hpp).              *)
(***************************************************************************)
IntegerLiteralNode(n) == [type |-> "INTEGER_LITERAL", value |-> n]

StringLiteralNode(s) == [type |-> "STRING_LITERAL", value |-> s]

\* the value is given in units of 1 / DoubleScale
FloatLiteralNode(n) == [type |-> "FLOAT_LITERAL", value |-> n]

UnaryExpressionNode(o, x) == [type |-> "UNARY_EXPRESSION", operator_token |-> o, operand |-> x]

IdentifierNode(n) == [type |-> "IDENTIFIER", name |-> n]

BinaryExpressionNode(l, o, r) ==
  [type |-> "BINARY_EXPRESSION", left |-> l, operator_token |-> o, right |-> r]

AssignmentExpressionNode(t, x) == [type |-> "ASSIGNMENT_EXPRESSION", target |-> t, value |-> x]

ArrayLiteralNode(es) == [type |-> "ARRAY_LITERAL", elements |-> es]

CallExpressionNode(f, as) == [type |-> "CALL_EXPRESSION", function |-> f, arguments |-> as]

ExpressionStatementNode(e) == [type |-> "EXPRESSION_STATEMENT", expression |-> e]

VariableStatementNode(n, x, mut) ==
  [type |-> "VARIABLE_STATEMENT", name |-> IdentifierNode(n), value |-> x, is_mutable |-> mut]

ReturnStatementNode(x) == [type |-> "RETURN_STATEMENT", return_value |-> x]

BlockStatementNode(ss) == [type |-> "BLOCK_STATEMENT", statements |-> ss]

ProgramNode(ss) == [type |-> "PROGRAM", statements |-> ss]

BooleanLiteralNode(b) == [type |-> "BOOLEAN_LITERAL", value |-> b]

\* an absent child: the null else_expression of an if without else
NoNode == [type |-> "NONE"]

IfElseExpressionNode(cond, then_expr, else_expr) ==
  [type |-> "IF_ELSE_EXPRESSION", condition |-> cond,
   then_expression |-> then_expr, else_expression |-> else_expr]

WhileLoopStatementNode(cond, body) ==
  [type |-> "WHILE_LOOP_STATEMENT", condition |-> cond, block |-> body]

FunctionStatementNode(n, ps, body) ==
  [type |-> "FUNCTION_STATEMENT", name |-> IdentifierNode(n), parameters |-> ps, body |-> body]

ForLoopStatementNode(n, iterable, body) ==
  [type |-> "FOR_LOOP_STATEMENT", identifier |-> IdentifierNode(n), iterable |-> iterable,
   body |-> body]

\* the programs run, in PEBBL:
\*   1   1;
\*   2   let x = 1; x = 2;
\*   3   var x = 1; x = x + 2; x;
\*   4   print(1);
\*   5   [[]];
\*   6   ["a", "b"];
\*   7   { var x = 1; x; }
\*   8   1; let x = 2;
\*   9   y;
\*   10  1 + "a";
\*   11  1(2);
\*   12  return 1; 2;
\*   13  let x = ["a", "b"]; [[], [], [], []];
\*   14  var x = 1; { x = 2; } x;
\*   15  let s = "a"; s;
Programs == <<
  ProgramNode(<<ExpressionStatementNode(IntegerLiteralNode(1))>>),
  ProgramNode(<<VariableStatementNode("x", IntegerLiteralNode(1), FALSE),
                ExpressionStatementNode(
                  AssignmentExpressionNode(IdentifierNode("x"), IntegerLiteralNode(2)))>>),
  ProgramNode(<<VariableStatementNode("x", IntegerLiteralNode(1), TRUE),
                ExpressionStatementNode(
                  AssignmentExpressionNode(IdentifierNode("x"),
                    BinaryExpressionNode(IdentifierNode("x"), "PLUS", IntegerLiteralNode(2)))),
                ExpressionStatementNode(IdentifierNode("x"))>>),
  ProgramNode(<<ExpressionStatementNode(
                  CallExpressionNode(IdentifierNode("print"), <<IntegerLiteralNode(1)>>))>>),
  ProgramNode(<<ExpressionStatementNode(ArrayLiteralNode(<<ArrayLiteralNode(<<>>)>>))>>),
  ProgramNode(<<ExpressionStatementNode(
                  ArrayLiteralNode(<<StringLiteralNode("a"), StringLiteralNode("b")>>))>>),
  ProgramNode(<<BlockStatementNode(<<VariableStatementNode("x", IntegerLiteralNode(1), TRUE),
                                     ExpressionStatementNode(IdentifierNode("x"))>>)>>),
  ProgramNode(<<ExpressionStatementNode(IntegerLiteralNode(1)),
                VariableStatementNode("x", IntegerLiteralNode(2), FALSE)>>),
  ProgramNode(<<ExpressionStatementNode(IdentifierNode("y"))>>),
  ProgramNode(<<ExpressionStatementNode(
                  BinaryExpressionNode(IntegerLiteralNode(1), "PLUS", StringLiteralNode("a")))>>),
  ProgramNode(<<ExpressionStatementNode(
                  CallExpressionNode(IntegerLiteralNode(1), <<IntegerLiteralNode(2)>>))>>),
  ProgramNode(<<ReturnStatementNode(IntegerLiteralNode(1)),
                ExpressionStatementNode(IntegerLiteralNode(2))>>),
  ProgramNode(<<VariableStatementNode("x",
                  ArrayLiteralNode(<<StringLiteralNode("a"), StringLiteralNode("b")>>), FALSE),
                ExpressionStatementNode(
                  ArrayLiteralNode(<<ArrayLiteralNode(<<>>), ArrayLiteralNode(<<>>),
                                     ArrayLiteralNode(<<>>), ArrayLiteralNode(<<>>)>>))>>),
  ProgramNode(<<VariableStatementNode("x", IntegerLiteralNode(1), TRUE),
                BlockStatementNode(<<ExpressionStatementNode(
                  AssignmentExpressionNode(IdentifierNode("x"), IntegerLiteralNode(2)))>>),
                ExpressionStatementNode(IdentifierNode("x"))>>),
  ProgramNode(<<VariableStatementNode("s", StringLiteralNode("a"), FALSE),
                ExpressionStatementNode(IdentifierNode("s"))>>)
>>

\* print(e);
PrintStatement(e) ==
  ExpressionStatementNode(CallExpressionNode(IdentifierNode("print"), <<e>>))

\* the programs of functions, blocks and for-in loops run by the tree-walker,
\* in PEBBL:
\*   1   func f() { return f(); } f();
\*   2   let x = 1; func g() { return x; } { let x = 2; print(g()); } print(g());
\*   3   { { y; } }
\*   4   func h() { { y; } } { h(); }
\*   5   func k(a) { { return a; } 3; } var r = 0; { r = k(1) + 1; } r;
\*   6   for i in [1, 2] { print(i); }
\*   7   let i = 0; for i in [1] { print(i); }
\*   8   for i in 1 { print(i); }
\*   9   for i in "s" { print(i); }
\*   10  { for i in [1, 2] { j; } }
\*   11  for i in [1, 2] { return i; } 5;
\*   12  for i in [] { print(1); }
\*   13  var i = 0; for i in [1] { print(i); } i;
TreePrograms == <<
  ProgramNode(<<FunctionStatementNode("f", <<>>, BlockStatementNode(<<
                  ReturnStatementNode(CallExpressionNode(IdentifierNode("f"), <<>>))>>)),
                ExpressionStatementNode(CallExpressionNode(IdentifierNode("f"), <<>>))>>),
  ProgramNode(<<VariableStatementNode("x", IntegerLiteralNode(1), FALSE),
                FunctionStatementNode("g", <<>>, BlockStatementNode(<<
                  ReturnStatementNode(IdentifierNode("x"))>>)),
                BlockStatementNode(<<
                  VariableStatementNode("x", IntegerLiteralNode(2), FALSE),
                  PrintStatement(CallExpressionNode(IdentifierNode("g"), <<>>))>>),
                PrintStatement(CallExpressionNode(IdentifierNode("g"), <<>>))>>),
  ProgramNode(<<BlockStatementNode(<<BlockStatementNode(<<
                  ExpressionStatementNode(IdentifierNode("y"))>>)>>)>>),
  ProgramNode(<<FunctionStatementNode("h", <<>>, BlockStatementNode(<<
                  BlockStatementNode(<<ExpressionStatementNode(IdentifierNode("y"))>>)>>)),
                BlockStatementNode(<<
                  ExpressionStatementNode(CallExpressionNode(IdentifierNode("h"), <<>>))>>)>>),
  ProgramNode(<<FunctionStatementNode("k", <<"a">>, BlockStatementNode(<<
                  BlockStatementNode(<<ReturnStatementNode(IdentifierNode("a"))>>),
                  ExpressionStatementNode(IntegerLiteralNode(3))>>)),
                VariableStatementNode("r", IntegerLiteralNode(0), TRUE),
                BlockStatementNode(<<ExpressionStatementNode(
                  AssignmentExpressionNode(IdentifierNode("r"),
                    BinaryExpressionNode(
                      CallExpressionNode(IdentifierNode("k"), <<IntegerLiteralNode(1)>>),
                      "PLUS", IntegerLiteralNode(1))))>>),
                ExpressionStatementNode(IdentifierNode("r"))>>),
  ProgramNode(<<ForLoopStatementNode("i",
                  ArrayLiteralNode(<<IntegerLiteralNode(1), IntegerLiteralNode(2)>>),
                  BlockStatementNode(<<PrintStatement(IdentifierNode("i"))>>))>>),
  ProgramNode(<<VariableStatementNode("i", IntegerLiteralNode(0), FALSE),
                ForLoopStatementNode("i", ArrayLiteralNode(<<IntegerLiteralNode(1)>>),
                  BlockStatementNode(<<PrintStatement(IdentifierNode("i"))>>))>>),
  ProgramNode(<<ForLoopStatementNode("i", IntegerLiteralNode(1),
                  BlockStatementNode(<<PrintStatement(IdentifierNode("i"))>>))>>),
  ProgramNode(<<ForLoopStatementNode("i", StringLiteralNode("s"),
                  BlockStatementNode(<<PrintStatement(IdentifierNode("i"))>>))>>),
  ProgramNode(<<BlockStatementNode(<<ForLoopStatementNode("i",
                  ArrayLiteralNode(<<IntegerLiteralNode(1), IntegerLiteralNode(2)>>),
                  BlockStatementNode(<<ExpressionStatementNode(IdentifierNode("j"))>>))>>)>>),
  ProgramNode(<<ForLoopStatementNode("i",
                  ArrayLiteralNode(<<IntegerLiteralNode(1), IntegerLiteralNode(2)>>),
                  BlockStatementNode(<<ReturnStatementNode(IdentifierNode("i"))>>)),
                ExpressionStatementNode(IntegerLiteralNode(5))>>),
  ProgramNode(<<ForLoopStatementNode("i", ArrayLiteralNode(<<>>),
                  BlockStatementNode(<<PrintStatement(IntegerLiteralNode(1))>>))>>),
  ProgramNode(<<VariableStatementNode("i", IntegerLiteralNode(0), TRUE),
                ForLoopStatementNode("i", ArrayLiteralNode(<<IntegerLiteralNode(1)>>),
                  BlockStatementNode(<<PrintStatement(IdentifierNode("i"))>>)),
                ExpressionStatementNode(IdentifierNode("i"))>>)
>>

\* the operands of the operator programs, in PEBBL: 0, 1, 2, 0.0, 1.0, a
\* double that is no whole number, the largest finite double, true, false,
\* `if false { 1 }` (nil), the String s, the builtins print and length, and
\* the product of the largest finite double with itself (an infinity)
Operands == <<
  IntegerLiteralNode(0), IntegerLiteralNode(1), IntegerLiteralNode(2),
  FloatLiteralNode(0), FloatLiteralNode(DoubleScale), FloatLiteralNode(DoubleScale + 1),
  FloatLiteralNode(MaxDouble),
  BooleanLiteralNode(TRUE), BooleanLiteralNode(FALSE),
  IfElseExpressionNode(BooleanLiteralNode(FALSE), IntegerLiteralNode(1), NoNode),
  IdentifierNode("s"), IdentifierNode("print"), IdentifierNode("length"),
  BinaryExpressionNode(FloatLiteralNode(MaxDouble), "ASTERISK", FloatLiteralNode(MaxDouble))
>>

BinaryTokens ==
  <<"PLUS", "MINUS", "ASTERISK", "SLASH", "EQUAL", "NOT_EQUAL", "LESS", "GREATER",
    "LESS_EQUAL", "GREATER_EQUAL", "AND", "OR">>

UnaryTokens == <<"MINUS", "BANG">>

\* let s = "a"; <expression>;
OperatorProgram(expression) ==
  ProgramNode(<<VariableStatementNode("s", StringLiteralNode("a"), FALSE),
                ExpressionStatementNode(expression)>>)

\* the values the two assignments of an effect program store: a falsy and a
\* truthy one on the left, another one on the right
EffectLefts == <<BooleanLiteralNode(FALSE), IntegerLiteralNode(1)>>

EffectRight == IntegerLiteralNode(2)

\* var x = 0; (x = <left>) <token> (x = <right>);
EffectProgram(left, token, right) ==
  ProgramNode(<<VariableStatementNode("x", IntegerLiteralNode(0), TRUE),
                ExpressionStatementNode(
                  BinaryExpressionNode(
                    AssignmentExpressionNode(IdentifierNode("x"), left), token,
                    AssignmentExpressionNode(IdentifierNode("x"), right)))>>)

\* the conditions of the if programs, in PEBBL: 0, 1, 0.0, 1.0, true, false
\* and the String s
IfConditions == <<
  IntegerLiteralNode(0), IntegerLiteralNode(1),
  FloatLiteralNode(0), FloatLiteralNode(DoubleScale),
  BooleanLiteralNode(TRUE), BooleanLiteralNode(FALSE),
  IdentifierNode("s")
>>

\* the else branches of the if programs: `else { 2 }` and none
IfElses == <<IntegerLiteralNode(2), NoNode>>

\* let s = "a"; if <condition> { 1 } else { 2 };   or without the else
IfProgram(condition, else_expr) ==
  OperatorProgram(IfElseExpressionNode(condition, IntegerLiteralNode(1), else_expr))

\* x = x + 1;
Increment(name) ==
  ExpressionStatementNode(
    AssignmentExpressionNode(
      IdentifierNode(name),
      BinaryExpressionNode(IdentifierNode(name), "PLUS", IntegerLiteralNode(1))))

\* while <name> < <n> <body>
WhileBelow(name, n, body) ==
  WhileLoopStatementNode(
    BinaryExpressionNode(IdentifierNode(name), "LESS", IntegerLiteralNode(n)),
    BlockStatementNode(body))

\* the loop programs, in PEBBL:
\*   1  var x = 0; while x < n { x = x + 1; } x;
\*   2  var x = 0; while x < 0 { x = x + 1; } x;
\*   3  var x = 0; while x < n { if x < 1 { 1 } else { 2 }; x = x + 1; } x;
\*   4  var x = 0; var y = 0; while x < n { while y < 1 { y = y + 1; } x = x + 1; } x;
\*   5  var x = 0; while x < n { x = x + 1; 7; } x;
LoopPrograms == <<
  ProgramNode(<<VariableStatementNode("x", IntegerLiteralNode(0), TRUE),
                WhileBelow("x", MaxIterations, <<Increment("x")>>),
                ExpressionStatementNode(IdentifierNode("x"))>>),
  ProgramNode(<<VariableStatementNode("x", IntegerLiteralNode(0), TRUE),
                WhileBelow("x", 0, <<Increment("x")>>),
                ExpressionStatementNode(IdentifierNode("x"))>>),
  ProgramNode(<<VariableStatementNode("x", IntegerLiteralNode(0), TRUE),
                WhileBelow("x", MaxIterations,
                  <<ExpressionStatementNode(
                      IfElseExpressionNode(
                        BinaryExpressionNode(IdentifierNode("x"), "LESS", IntegerLiteralNode(1)),
                        IntegerLiteralNode(1), IntegerLiteralNode(2))),
                    Increment("x")>>),
                ExpressionStatementNode(IdentifierNode("x"))>>),
  ProgramNode(<<VariableStatementNode("x", IntegerLiteralNode(0), TRUE),
                VariableStatementNode("y", IntegerLiteralNode(0), TRUE),
                WhileBelow("x", MaxIterations,
                  <<WhileBelow("y", 1, <<Increment("y")>>), Increment("x")>>),
                ExpressionStatementNode(IdentifierNode("x"))>>),
  ProgramNode(<<VariableStatementNode("x", IntegerLiteralNode(0), TRUE),
                WhileBelow("x", MaxIterations,
                  <<Increment("x"), ExpressionStatementNode(IntegerLiteralNode(7))>>),
                ExpressionStatementNode(IdentifierNode("x"))>>)
>>

\* if/else expressions nested to depth d in the condition and in the then
\* branch, and to depth 1 in the else branch, which may be absent
RECURSIVE JumpExpressions(_)
JumpExpressions(d) ==
  IF d = 0 THEN {BooleanLiteralNode(TRUE)}
  ELSE With(JumpExpressions(d - 1), LAMBDA inner :
         inner \cup {IfElseExpressionNode(cond, then_expr, else_expr) :
                       cond \in inner, then_expr \in inner,
                       else_expr \in JumpExpressions(IF d > 1 THEN 1 ELSE 0) \cup {NoNode}})

\* expression statements and while loops nested to depth d
RECURSIVE JumpStatements(_)
JumpStatements(d) ==
  {ExpressionStatementNode(e) : e \in JumpExpressions(d)}
    \cup (IF d = 0 THEN {}
          ELSE {WhileLoopStatementNode(cond, BlockStatementNode(<<body>>)) :
                  cond \in JumpExpressions(d - 1), body \in JumpStatements(d - 1)})

\* the programs compiled on their own: one statement, or one followed by a
\* shallower one
JumpPrograms ==
  {ProgramNode(<<stmt>>) : stmt \in JumpStatements(MaxNest)}
    \cup {ProgramNode(<<stmt, next>>) :
            stmt \in JumpStatements(MaxNest), next \in JumpStatements(1)}

\* the calls run with builtins registered in the VM, in PEBBL:
\*   print();  print(1);  print(1, 2);      a variadic builtin
\*   length();  length(1, 2);  push(1);     a fixed arity, another count
\*   1();  1(2);  "a"(1);  [](1);           a callee that is no function
\*   1;                                     no call
CallCallees == <<IdentifierNode("print"), IdentifierNode("print"), IdentifierNode("print"),
                 IdentifierNode("length"), IdentifierNode("length"), IdentifierNode("push"),
                 IntegerLiteralNode(1), IntegerLiteralNode(1),
                 StringLiteralNode("a"), ArrayLiteralNode(<<>>)>>

CallArguments == <<<<>>, <<IntegerLiteralNode(1)>>,
                   <<IntegerLiteralNode(1), IntegerLiteralNode(2)>>,
                   <<>>, <<IntegerLiteralNode(1), IntegerLiteralNode(2)>>,
                   <<IntegerLiteralNode(1)>>,
                   <<>>, <<IntegerLiteralNode(2)>>,
                   <<IntegerLiteralNode(1)>>, <<IntegerLiteralNode(1)>>>>

CallPrograms ==
  [i \in 1..Len(CallCallees) |->
     ProgramNode(<<ExpressionStatementNode(
                     CallExpressionNode(CallCallees[i], CallArguments[i]))>>)]
    \o <<ProgramNode(<<ExpressionStatementNode(IntegerLiteralNode(1))>>)>>

NoProgram == ProgramNode(<<>>)

(***************************************************************************)
(* The running Interpreter as one record m: the heap, the Environment      *)
(* store, the fields of Interpreter, the activations of evaluate/execute   *)
(* (callStack: [node, pc, vals] where pc counts the sub-evaluations begun  *)
(* and vals are the values the activation holds in its locals) with the    *)
(* value the last activation returned (retval), the fields of VM and the   *)
(* chunk the Compiler builds.                                              *)
(***************************************************************************)
GlobalEnv == 1          \* Interpreter::global_env_
VMGlobalEnv == 2        \* VM::global_env_; VM::current_env_ never leaves it
STACK_MAX == 256
SIZE_MAX == -1          \* the arity of a variadic builtin

\* the fields of an address that holds no PEBBLFunction
NoFunction == [parameters |-> <<>>, closure |-> NULL, body |-> NoNode]

NoChunk == [instructions |-> <<>>, constants |-> <<>>, variable_names |-> <<>>]

\* what evaluate_call keeps on its C++ stack while the body of a function runs
NoSaved == [prev_env |-> NULL, prev_return |-> FALSE, prev_return_value |-> make_null]

\* an activation of evaluate or execute: its node, how far it has come, its
\* local values, and current_env_ at the moment it began (kept for the
\* properties only, never read by an action)
Frame(node) == [node |-> node, pc |-> 0, vals |-> <<>>, env |-> NULL, saved |-> NoSaved]

\* the activation of evaluate_call is inside execute(*func->body)
ExecutingBody(f) ==
  f.node.type = "CALL_EXPRESSION" /\ f.pc = Len(f.node.arguments) + 2

\* the activation of execute_for_statement has pushed its loop environment
InsideLoop(f) == f.node.type = "FOR_LOOP_STATEMENT" /\ f.vals # <<>>

EmptyHeap == [objects_ |-> <<>>, object_count_ |-> 0, next_gc_ |-> InitialThreshold,
              marked |-> [o \in ObjIds |-> FALSE], tag |-> [o \in ObjIds |-> "NONE"],
              elements |-> [o \in ObjIds |-> <<>>]]

Machine ==
  [heap |-> Heap, text |-> text, functions |-> functions, envs |-> envs, path |-> path,
   status |-> status,
   error_message |-> error_message, current_env_ |-> current_env_,
   has_return_ |-> has_return_, return_value_ |-> return_value_,
   callStack |-> callStack, retval |-> retval, output |-> output,
   chunk |-> chunk, stack_ |-> stack_, frames_ |-> frames_, has_error_ |-> has_error_,
   treeOutcome |-> treeOutcome, result |-> result, op |-> "exec"]

SetMachine(m) ==
  /\ SetHeap(m.heap)
  /\ text' = m.text
  /\ functions' = m.functions
  /\ envs' = m.envs
  /\ path' = m.path
  /\ status' = m.status
  /\ error_message' = m.error_message
  /\ current_env_' = m.current_env_
  /\ has_return_' = m.has_return_
  /\ return_value_' = m.return_value_
  /\ callStack' = m.callStack
  /\ retval' = m.retval
  /\ output' = m.output
  /\ chunk' = m.chunk
  /\ stack_' = m.stack_
  /\ frames_' = m.frames_
  /\ has_error_' = m.has_error_
  /\ treeOutcome' = m.treeOutcome
  /\ result' = m.result
  /\ op' = m.op
  /\ UNCHANGED <<roots_, envCall, program, bits, made>>

\* every pointer held outside the heap, and every element, once the heap is m.heap
ValidValue(x, h) == IF is_gc_ptr(x) THEN make_gc_ptr(Validity(as_gc_ptr(x), h)) ELSE x

ValidValues(s, h) == [i \in 1..Len(s) |-> ValidValue(s[i], h)]

Revalidate(m) ==
  LET h == m.heap IN
  [m EXCEPT
     !.heap.elements = [o \in ObjIds |-> ValidValues(h.elements[o], h)],
     !.text = [o \in ObjIds |-> IF o \in Range(h.objects_) THEN m.text[o] ELSE ""],
     !.functions = [o \in ObjIds |-> IF o \in Range(h.objects_) THEN m.functions[o]
                                     ELSE NoFunction],
     !.envs = [e \in 1..Len(m.envs) |->
                 [m.envs[e] EXCEPT !.variables_ =
                    [n \in DOMAIN m.envs[e].variables_ |->
                       [m.envs[e].variables_[n] EXCEPT !.value = ValidValue(@, h)]]]],
     !.return_value_ = ValidValue(@, h),
     !.callStack = [i \in 1..Len(m.callStack) |->
                      [m.callStack[i] EXCEPT !.vals = ValidValues(@, h),
                                             !.saved.prev_return_value = ValidValue(@, h)]],
     !.retval = ValidValue(@, h),
     !.stack_ = ValidValues(@, h),
     !.chunk.constants = ValidValues(@, h),
     !.result = Validity(@, h)]

\* the run read through a pointer to a destroyed object: what follows is undefined
Undefined(m) == [m EXCEPT !.status = "undefined", !.callStack = <<>>, !.frames_ = <<>>]

(***************************************************************************)
(* Root tracers: Interpreter::trace_roots and VM::trace_roots.             *)
(***************************************************************************)
RECURSIVE SeqOfSet(_)
SeqOfSet(S) ==
  IF S = {} THEN <<>>
  ELSE LET x == CHOOSE y \in S : TRUE IN <<x>> \o SeqOfSet(S \ {x})

Environment_trace_objects(E, e) ==
  LET ns == SeqOfSet(DOMAIN E[e].variables_)
  IN PtrsOf([i \in 1..Len(ns) |-> E[e].variables_[ns[i]].value])

RECURSIVE Interpreter_trace_environment_objects(_, _)
Interpreter_trace_environment_objects(E, e) ==
  IF e = NULL THEN <<>>
  ELSE Environment_trace_objects(E, e) \o Interpreter_trace_environment_objects(E, E[e].parent_)

Interpreter_trace_roots(m) ==
  Interpreter_trace_environment_objects(m.envs, GlobalEnv)
    \o (IF m.current_env_ # GlobalEnv
        THEN Interpreter_trace_environment_objects(m.envs, m.current_env_) ELSE <<>>)
    \o PtrsOf(<<m.return_value_>>)

VM_trace_roots(m) == PtrsOf(m.stack_) \o Environment_trace_objects(m.envs, VMGlobalEnv)

\* the tracers registered on the heap, in the order of registration
RootTracers(m) ==
  IF m.path = "tree" THEN <<Interpreter_trace_roots(m)>>
  ELSE <<Interpreter_trace_roots(m), VM_trace_roots(m)>>

\* a collection first calls every registered root tracer, then marks roots_
RECURSIVE GCHeap_mark_sources(_, _)
GCHeap_mark_sources(tracers, rootPtrs) ==
  IF tracers = <<>> THEN rootPtrs
  ELSE Head(tracers) \o GCHeap_mark_sources(Tail(tracers), rootPtrs)

RECURSIVE HeapClosure(_, _)
HeapClosure(h, S) ==
  LET T == S \cup {p \in ObjIds : \E o \in S : \E i \in 1..Len(h.elements[o]) :
                      is_gc_ptr(h.elements[o][i]) /\ as_gc_ptr(h.elements[o][i]) = p}
  IN IF T = S THEN S ELSE HeapClosure(h, T)

\* Tracer::mark would read obj->marked of a destroyed object
TraceReadsDestroyed(h, ptrs) ==
  \/ DANGLING \in Range(ptrs)
  \/ \E o \in HeapClosure(h, Range(ptrs) \cap ObjIds) : \E i \in 1..Len(h.elements[o]) :
        is_gc_ptr(h.elements[o][i]) /\ as_gc_ptr(h.elements[o][i]) = DANGLING

\* heap_.allocate<T>(...) called by the Interpreter, the Compiler or the VM
Interpreter_allocate(m, kind, elems, str) ==
  With(GCHeap_mark_sources(RootTracers(m), RootPtrs), LAMBDA ptrs :
    IF m.heap.object_count_ + 1 >= m.heap.next_gc_ /\ TraceReadsDestroyed(m.heap, ptrs)
    THEN Undefined(m)
    ELSE With(GCHeap_allocate(m.heap, ptrs, Min(FreeAddresses(m.heap)), kind, elems),
              LAMBDA r :
                Revalidate([m EXCEPT !.heap = r.heap, !.text[r.obj] = str, !.result = r.obj,
                                     !.op = IF r.collected THEN "allocate_gc"
                                            ELSE "allocate"])))

(***************************************************************************)
(* Interpreter: construction, errors, the outcome of a run.                *)
(***************************************************************************)
BuiltinNames == <<"print", "length", "type", "str", "push", "pop">>

BuiltinArity(n) ==
  CASE n = "print" -> SIZE_MAX
    [] n \in {"length", "type", "str", "pop"} -> 1
    [] n = "push" -> 2

RECURSIVE Interpreter_register_builtin_functions(_, _)
Interpreter_register_builtin_functions(m, names) ==
  IF names = <<>> THEN m
  ELSE With(Interpreter_allocate(m, "BUILTIN_FUNCTION", <<>>, Head(names)), LAMBDA a :
         Interpreter_register_builtin_functions(
           [a EXCEPT !.envs = Env_define(a.envs, GlobalEnv, Head(names),
                                         make_gc_ptr(a.result), FALSE)],
           Tail(names)))

\* a pop_environment that leaves current_env_ where it is
Interpreter_pop_environmentNever(m) == m

Interpreter_pop_environment(m) ==
  IF m.envs[m.current_env_].parent_ # NULL
  THEN [m EXCEPT !.current_env_ = m.envs[m.current_env_].parent_]
  ELSE m

\* the catch block of every block statement that is active pops its environment
RECURSIVE UnwoundEnv(_, _, _)
UnwoundEnv(E, cs, cur) ==
  IF cs = <<>> THEN cur
  ELSE UnwoundEnv(E, Front(cs),
                  IF ExecutingBody(Last(cs)) THEN Last(cs).saved.prev_env
                  ELSE IF \/ Last(cs).node.type = "BLOCK_STATEMENT" /\ Last(cs).pc >= 1
                          \/ InsideLoop(Last(cs))
                  THEN Interpreter_pop_environment(
                         [envs |-> E, current_env_ |-> cur]).current_env_
                  ELSE cur)

\* the catch block of every evaluate_call that is active restores has_return_
\* and return_value_; the outermost one is the last to do so
UnwoundReturn(cs, now) ==
  IF \E i \in 1..Len(cs) : ExecutingBody(cs[i])
  THEN cs[Min({i \in 1..Len(cs) : ExecutingBody(cs[i])})].saved
  ELSE now

\* runtime_error throws RuntimeError, which the caller of execute catches
Interpreter_runtime_error(m, message) ==
  [m EXCEPT !.status = "error", !.error_message = message, !.callStack = <<>>,
            !.frames_ = <<>>, !.retval = make_null,
            !.current_env_ = UnwoundEnv(m.envs, m.callStack, m.current_env_),
            !.has_return_ = UnwoundReturn(m.callStack,
                              [prev_return |-> m.has_return_]).prev_return,
            !.return_value_ = UnwoundReturn(m.callStack,
                                [prev_return_value |-> m.return_value_]).prev_return_value]

\* execute returned x to run_code, which prints it unless it is null
Finish(m, x) ==
  IF is_gc_ptr(x) /\ as_gc_ptr(x) = DANGLING THEN Undefined(m)
  ELSE [m EXCEPT !.status = "ok", !.callStack = <<>>, !.frames_ = <<>>, !.retval = x]

\* what stringify shows of a value: its variant, its number, its text
Describe(m, x) ==
  IF is_gc_ptr(x)
  THEN [t |-> m.heap.tag[as_gc_ptr(x)], v |-> 0, s |-> m.text[as_gc_ptr(x)]]
  ELSE [t |-> x.t, v |-> x.v, s |-> ""]

NoOutcome == [status |-> "none", output |-> <<>>, value |-> [t |-> "NIL", v |-> 0, s |-> ""]]

Final == {"ok", "error", "undefined"}

Outcome ==
  [status |-> status, output |-> output,
   value |-> IF status \in {"ok", "error"} THEN Describe(Machine, retval)
             ELSE NoOutcome.value]

InitExec ==
  /\ text = [o \in ObjIds |-> ""]
  /\ functions = [o \in ObjIds |-> NoFunction]
  /\ path = "none"
  /\ status = "idle"
  /\ error_message = ""
  /\ current_env_ = NULL
  /\ has_return_ = FALSE
  /\ return_value_ = make_null
  /\ callStack = <<>>
  /\ retval = make_null
  /\ output = <<>>
  /\ chunk = NoChunk
  /\ stack_ = <<>>
  /\ frames_ = <<>>
  /\ has_error_ = FALSE
  /\ treeOutcome = NoOutcome

\* run_code: a fresh heap, Interpreter::Interpreter(heap, use_bytecode), and for
\* the tree-walker the call of execute(program)
Interpreter_new(use_bytecode) ==
  /\ IF use_bytecode THEN path = "tree" /\ status \in Final ELSE path = "none"
  /\ SetMachine(
       Interpreter_register_builtin_functions(
         [heap |-> EmptyHeap, text |-> [o \in ObjIds |-> ""],
          functions |-> [o \in ObjIds |-> NoFunction],
          envs |-> IF use_bytecode THEN <<Environment(NULL), Environment(NULL)>>
                   ELSE <<Environment(NULL)>>,
          path |-> IF use_bytecode THEN "bytecode" ELSE "tree",
          status |-> IF use_bytecode THEN "constructed" ELSE "running",
          error_message |-> "", current_env_ |-> GlobalEnv,
          has_return_ |-> FALSE, return_value_ |-> make_null,
          callStack |-> IF use_bytecode THEN <<>> ELSE <<Frame(program)>>,
          retval |-> make_null, output |-> <<>>,
          chunk |-> NoChunk, stack_ |-> <<>>, frames_ |-> <<>>, has_error_ |-> FALSE,
          treeOutcome |-> IF use_bytecode THEN Outcome ELSE treeOutcome,
          result |-> NULL, op |-> "exec"],
         BuiltinNames))

(***************************************************************************)
(* The tree-walker: one action per evaluate_/execute_ function, enabled    *)
(* when the innermost activation is one of that function.                  *)
(***************************************************************************)
Running(p) == path = p /\ status = "running"

TopFrame == callStack[Len(callStack)]

Evaluating(types) == Running("tree") /\ callStack # <<>> /\ TopFrame.node.type \in types

Top(m) == m.callStack[Len(m.callStack)]

\* the activation calls evaluate/execute on a child node
Call(m, node) ==
  LET cs == m.callStack
  IN [m EXCEPT !.callStack = Append([cs EXCEPT ![Len(cs)].pc = @ + 1],
                                    [Frame(node) EXCEPT !.env = m.current_env_])]

\* the activation returns x to its caller
Return(m, x) == [m EXCEPT !.callStack = Front(@), !.retval = x]

\* the activation stores x in its locals
Keep(m, x) == [m EXCEPT !.callStack[Len(m.callStack)].vals = Append(@, x)]

Interpreter_execute ==
  /\ Evaluating({"PROGRAM"})
  /\ LET m == Machine
         f == Top(m)
         started == IF f.pc = 0
                    THEN [m EXCEPT !.has_return_ = FALSE, !.return_value_ = make_null,
                                   !.retval = make_null]
                    ELSE m
     IN SetMachine(
          IF (f.pc >= 1 /\ started.has_return_) \/ f.pc = Len(f.node.statements)
          THEN Finish(started, started.retval)
          ELSE Call([started EXCEPT !.current_env_ = GlobalEnv], f.node.statements[f.pc + 1]))

Interpreter_evaluate_literal ==
  /\ Evaluating({"INTEGER_LITERAL", "FLOAT_LITERAL", "STRING_LITERAL", "BOOLEAN_LITERAL"})
  /\ LET m == Machine
         n == Top(m).node
     IN SetMachine(
          IF n.type = "INTEGER_LITERAL" THEN Return(m, make_int32(n.value))
          ELSE IF n.type = "FLOAT_LITERAL" THEN Return(m, make_double(Finite(n.value)))
          ELSE IF n.type = "BOOLEAN_LITERAL" THEN Return(m, make_bool(n.value))
          ELSE With(Interpreter_allocate(m, "STRING", <<>>, n.value), LAMBDA a :
                 IF a.status = "undefined" THEN a ELSE Return(a, make_gc_ptr(a.result))))

Interpreter_evaluate_identifier ==
  /\ Evaluating({"IDENTIFIER"})
  /\ LET m == Machine
         g == Env_get(m.envs, m.current_env_, Top(m).node.name)
     IN SetMachine(IF g.error # "none" THEN Interpreter_runtime_error(m, "Undefined variable")
                   ELSE Return(m, g.value))

Interpreter_is_truthy(x) ==
  IF is_bool(x) THEN as_bool(x)
  ELSE IF is_null(x) THEN FALSE
  ELSE IF is_int32(x) THEN as_int32(x) # 0
  ELSE IF is_double(x) THEN ~DoubleEqual(as_double(x), Finite(0))
  ELSE TRUE

\* an int32 as the double it converts to, a double as it is
Number(x) == IF is_int32(x) THEN Widened(as_int32(x)) ELSE as_double(x)

\* an are_equal that compares values of the same variant only
Interpreter_are_equalSameVariant(left, right) ==
  IF is_null(left) /\ is_null(right) THEN TRUE
  ELSE IF is_null(left) \/ is_null(right) THEN FALSE
  ELSE IF is_bool(left) /\ is_bool(right) THEN as_bool(left) = as_bool(right)
  ELSE IF is_int32(left) /\ is_int32(right) THEN as_int32(left) = as_int32(right)
  ELSE IF is_double(left) /\ is_double(right)
  THEN DoubleEqual(as_double(left), as_double(right))
  ELSE IF is_gc_ptr(left) /\ is_gc_ptr(right) THEN as_gc_ptr(left) = as_gc_ptr(right)
  ELSE FALSE

Interpreter_are_equal(left, right) ==
  IF is_null(left) /\ is_null(right) THEN TRUE
  ELSE IF is_null(left) \/ is_null(right) THEN FALSE
  ELSE IF is_bool(left) /\ is_bool(right) THEN as_bool(left) = as_bool(right)
  ELSE IF is_int32(left) /\ is_int32(right) THEN as_int32(left) = as_int32(right)
  ELSE IF is_double(left) /\ is_double(right)
  THEN DoubleEqual(as_double(left), as_double(right))
  ELSE IF (is_int32(left) /\ is_double(right)) \/ (is_double(left) /\ is_int32(right))
  THEN DoubleEqual(Number(left), Number(right))
  ELSE IF is_gc_ptr(left) /\ is_gc_ptr(right) THEN as_gc_ptr(left) = as_gc_ptr(right)
  ELSE FALSE

\* the four combinations of int32 and double every arithmetic and ordering
\* case of evaluate_binary tests for
BothNumbers(left, right) ==
  (is_int32(left) \/ is_double(left)) /\ (is_int32(right) \/ is_double(right))

ArithmeticTokens == {"PLUS", "MINUS", "ASTERISK", "SLASH"}

OrderingTokens == {"LESS", "GREATER", "LESS_EQUAL", "GREATER_EQUAL"}

\* evaluate_binary on two numbers, the divisor not zero
Interpreter_arithmetic(token, left, right) ==
  IF is_int32(left) /\ is_int32(right) /\ token # "SLASH"
  THEN make_int32(CASE token = "PLUS" -> as_int32(left) + as_int32(right)
                    [] token = "MINUS" -> as_int32(left) - as_int32(right)
                    [] token = "ASTERISK" -> as_int32(left) * as_int32(right))
  ELSE make_double(CASE token = "PLUS" -> DoubleAdd(Number(left), Number(right))
                     [] token = "MINUS" -> DoubleSubtract(Number(left), Number(right))
                     [] token = "ASTERISK" -> DoubleMultiply(Number(left), Number(right))
                     [] token = "SLASH" -> DoubleDivide(Number(left), Number(right)))

Interpreter_ordering(token, left, right) ==
  make_bool(CASE token = "LESS" -> DoubleLess(Number(left), Number(right))
              [] token = "GREATER" -> DoubleLess(Number(right), Number(left))
              [] token = "LESS_EQUAL" ->
                   \/ DoubleLess(Number(left), Number(right))
                   \/ DoubleEqual(Number(left), Number(right))
              [] token = "GREATER_EQUAL" ->
                   \/ DoubleLess(Number(right), Number(left))
                   \/ DoubleEqual(Number(left), Number(right)))

\* the switch of evaluate_binary, both operands evaluated
Interpreter_binary(m, token, left, right) ==
  IF token \in ArithmeticTokens
  THEN IF ~BothNumbers(left, right) THEN Interpreter_runtime_error(m, "Invalid operands")
       ELSE IF token = "SLASH" /\ DoubleEqual(Number(right), Finite(0))
       THEN Interpreter_runtime_error(m, "Division by zero")
       ELSE Return(m, Interpreter_arithmetic(token, left, right))
  ELSE IF token = "EQUAL" THEN Return(m, make_bool(Interpreter_are_equal(left, right)))
  ELSE IF token = "NOT_EQUAL" THEN Return(m, make_bool(~Interpreter_are_equal(left, right)))
  ELSE IF token \in OrderingTokens
  THEN IF ~BothNumbers(left, right) THEN Interpreter_runtime_error(m, "Invalid operands")
       ELSE Return(m, Interpreter_ordering(token, left, right))
  ELSE IF token = "AND"
  THEN Return(m, make_bool(Interpreter_is_truthy(left) /\ Interpreter_is_truthy(right)))
  ELSE IF token = "OR"
  THEN Return(m, make_bool(Interpreter_is_truthy(left) \/ Interpreter_is_truthy(right)))
  ELSE Interpreter_runtime_error(m, "Unknown binary operator")

\* an evaluate_binary whose AND and OR skip the right operand when the left
\* one decides the result
Interpreter_evaluate_binaryShortCircuit ==
  /\ Evaluating({"BINARY_EXPRESSION"})
  /\ LET m == Machine
         f == Top(m)
     IN SetMachine(
          IF f.pc = 0 THEN Call(m, f.node.left)
          ELSE IF f.pc = 1 /\ f.node.operator_token = "AND" /\ ~Interpreter_is_truthy(m.retval)
          THEN Return(m, make_bool(FALSE))
          ELSE IF f.pc = 1 /\ f.node.operator_token = "OR" /\ Interpreter_is_truthy(m.retval)
          THEN Return(m, make_bool(TRUE))
          ELSE IF f.pc = 1 THEN Call(Keep(m, m.retval), f.node.right)
          ELSE Interpreter_binary(m, f.node.operator_token, f.vals[1], m.retval))

Interpreter_evaluate_binary ==
  /\ Evaluating({"BINARY_EXPRESSION"})
  /\ LET m == Machine
         f == Top(m)
     IN SetMachine(
          IF f.pc = 0 THEN Call(m, f.node.left)
          ELSE IF f.pc = 1 THEN Call(Keep(m, m.retval), f.node.right)
          ELSE Interpreter_binary(m, f.node.operator_token, f.vals[1], m.retval))

Interpreter_evaluate_unary ==
  /\ Evaluating({"UNARY_EXPRESSION"})
  /\ LET m == Machine
         f == Top(m)
         operand == m.retval
     IN SetMachine(
          IF f.pc = 0 THEN Call(m, f.node.operand)
          ELSE IF f.node.operator_token = "MINUS"
          THEN IF is_int32(operand) THEN Return(m, make_int32(-as_int32(operand)))
               ELSE IF is_double(operand)
               THEN Return(m, make_double(DoubleNegate(as_double(operand))))
               ELSE Interpreter_runtime_error(m, "Invalid operand")
          ELSE IF f.node.operator_token = "BANG"
          THEN Return(m, make_bool(~Interpreter_is_truthy(operand)))
          ELSE Interpreter_runtime_error(m, "Unknown unary operator"))

Interpreter_evaluate_if_else ==
  /\ Evaluating({"IF_ELSE_EXPRESSION"})
  /\ LET m == Machine
         f == Top(m)
     IN SetMachine(
          IF f.pc = 0 THEN Call(m, f.node.condition)
          ELSE IF f.pc = 2 THEN Return(m, m.retval)
          ELSE IF Interpreter_is_truthy(m.retval)
          THEN Call(m, f.node.then_expression)
          ELSE IF f.node.else_expression # NoNode
          THEN Call(m, f.node.else_expression)
          ELSE Return(m, make_null))

Interpreter_evaluate_assignment ==
  /\ Evaluating({"ASSIGNMENT_EXPRESSION"})
  /\ LET m == Machine
         f == Top(m)
     IN SetMachine(
          IF f.pc = 0 THEN Call(m, f.node.value)
          ELSE IF f.node.target.type = "IDENTIFIER"
          THEN LET s == Env_set(m.envs, m.current_env_, f.node.target.name, m.retval)
               IN IF s.error # "none" THEN Interpreter_runtime_error(m, s.error)
                  ELSE Return([m EXCEPT !.envs = s.envs], m.retval)
          ELSE Interpreter_runtime_error(m, "Invalid assignment target"))

Interpreter_evaluate_array_literal ==
  /\ Evaluating({"ARRAY_LITERAL"})
  /\ LET m == Machine
         f == Top(m)
         kept == IF f.pc >= 1 THEN Keep(m, m.retval) ELSE m
     IN SetMachine(
          IF f.pc < Len(f.node.elements) THEN Call(kept, f.node.elements[f.pc + 1])
          ELSE With(Interpreter_allocate(kept, "ARRAY", Top(kept).vals, ""), LAMBDA a :
                 IF a.status = "undefined" THEN a ELSE Return(a, make_gc_ptr(a.result))))

\* BuiltinFunctions::print_impl: one line, the arguments stringified
print_impl(m, args) ==
  IF \E i \in 1..Len(args) : is_gc_ptr(args[i]) /\ as_gc_ptr(args[i]) = DANGLING
  THEN Undefined(m)
  ELSE Return([m EXCEPT !.output = Append(@, [i \in 1..Len(args) |-> Describe(m, args[i])])],
              make_null)

\* how many activations of evaluate_call are inside the body of their function
CallDepth(m) == Cardinality({i \in 1..Len(m.callStack) : ExecutingBody(m.callStack[i])})

RECURSIVE BindParameters(_, _, _, _)
BindParameters(E, e, params, values) ==
  IF params = <<>> THEN E
  ELSE BindParameters(Env_define(E, e, Head(params), Head(values), TRUE), e,
                      Tail(params), Tail(values))

\* a call environment whose parent is the environment of the caller
CallEnvironmentDynamic(m, fn) == Environment(m.current_env_)

\* std::make_shared<Environment>(func->closure)
CallEnvironment(m, fn) == Environment(fn.closure)

\* evaluate_call, user function: the call environment, the parameters, the
\* saved state, then execute(*func->body)
EnterFunction(m, fn) ==
  Call([m EXCEPT !.envs = BindParameters(Append(@, CallEnvironment(m, fn)), Len(m.envs) + 1,
                                         fn.parameters, Tail(Top(m).vals)),
                 !.callStack[Len(m.callStack)].saved =
                   [prev_env |-> m.current_env_, prev_return |-> m.has_return_,
                    prev_return_value |-> m.return_value_],
                 !.current_env_ = Len(m.envs) + 1,
                 !.has_return_ = FALSE,
                 !.return_value_ = make_null],
       fn.body)

\* an evaluate_call that restores the environment but leaves has_return_ and
\* return_value_ as the callee set them
LeaveFunctionKeepingReturn(m) ==
  Return([m EXCEPT !.current_env_ = Top(m).saved.prev_env],
         IF m.has_return_ THEN m.return_value_ ELSE m.retval)

\* evaluate_call, user function: the body has finished
LeaveFunction(m) ==
  Return([m EXCEPT !.current_env_ = Top(m).saved.prev_env,
                   !.has_return_ = Top(m).saved.prev_return,
                   !.return_value_ = Top(m).saved.prev_return_value],
         IF m.has_return_ THEN m.return_value_ ELSE m.retval)

Interpreter_evaluate_call ==
  /\ Evaluating({"CALL_EXPRESSION"})
  /\ LET m == Machine
         f == Top(m)
         args == f.node.arguments
         function == IF f.pc = 1 THEN m.retval ELSE f.vals[1]
         kept == Keep(m, m.retval)
     IN SetMachine(
          IF f.pc = 0 THEN Call(m, f.node.function)
          ELSE IF ~is_gc_ptr(function) THEN Interpreter_runtime_error(m, "Not a function")
          ELSE IF as_gc_ptr(function) = DANGLING THEN Undefined(m)
          ELSE IF m.heap.tag[as_gc_ptr(function)] = "FUNCTION"
          THEN IF Len(args) # Len(m.functions[as_gc_ptr(function)].parameters)
               THEN Interpreter_runtime_error(m, "Wrong number of arguments")
               ELSE IF f.pc - 1 < Len(args) THEN Call(kept, args[f.pc])
               ELSE IF f.pc = Len(args) + 1
               THEN IF CallDepth(m) >= MaxCallDepth THEN Undefined(m)
                    ELSE EnterFunction(kept, m.functions[as_gc_ptr(function)])
               ELSE LeaveFunction(m)
          ELSE IF m.heap.tag[as_gc_ptr(function)] # "BUILTIN_FUNCTION"
          THEN Interpreter_runtime_error(m, "Not a function")
          ELSE IF BuiltinArity(m.text[as_gc_ptr(function)]) # SIZE_MAX
                  /\ Len(args) # BuiltinArity(m.text[as_gc_ptr(function)])
          THEN Interpreter_runtime_error(m, "Wrong number of arguments")
          ELSE IF f.pc - 1 < Len(args) THEN Call(kept, args[f.pc])
          ELSE CASE m.text[as_gc_ptr(function)] = "print" -> print_impl(kept, Tail(Top(kept).vals)))

Interpreter_execute_expression_statement ==
  /\ Evaluating({"EXPRESSION_STATEMENT"})
  /\ LET m == Machine
         f == Top(m)
     IN SetMachine(IF f.pc = 0 THEN Call(m, f.node.expression) ELSE Return(m, m.retval))

Interpreter_execute_variable_statement ==
  /\ Evaluating({"VARIABLE_STATEMENT"})
  /\ LET m == Machine
         f == Top(m)
     IN SetMachine(
          IF f.pc = 0 THEN Call(m, f.node.value)
          ELSE Return([m EXCEPT !.envs = Env_define(m.envs, m.current_env_, f.node.name.name,
                                                    m.retval, f.node.is_mutable)],
                      make_null))

Interpreter_execute_return_statement ==
  /\ Evaluating({"RETURN_STATEMENT"})
  /\ LET m == Machine
         f == Top(m)
     IN SetMachine(
          IF f.pc = 0 THEN Call(m, f.node.return_value)
          ELSE Return([m EXCEPT !.has_return_ = TRUE, !.return_value_ = m.retval], m.retval))

Interpreter_execute_function_statement ==
  /\ Evaluating({"FUNCTION_STATEMENT"})
  /\ LET m == Machine
         n == Top(m).node
     IN SetMachine(
          With(Interpreter_allocate(m, "FUNCTION", <<>>, n.name.name), LAMBDA a :
            IF a.status = "undefined" THEN a
            ELSE Return([a EXCEPT !.functions[a.result] =
                                    [parameters |-> n.parameters, closure |-> m.current_env_,
                                     body |-> n.body],
                                  !.envs = Env_define(a.envs, a.current_env_, n.name.name,
                                                      make_gc_ptr(a.result), FALSE)],
                        make_null)))

\* the loop variable is defined when no frame of the chain binds it yet and
\* assigned otherwise
BindLoopVariable(m, name, element) ==
  IF ~Env_exists(m.envs, m.current_env_, name)
  THEN [error |-> "none",
        envs |-> Env_define(m.envs, m.current_env_, name, element, TRUE)]
  ELSE Env_set(m.envs, m.current_env_, name, element)

\* one turn of the range-for over array->elements: the first pc - 1 elements
\* have had their turn
ForArray(m, elems) ==
  LET f == Top(m)
  IN IF (f.pc >= 2 /\ m.has_return_) \/ f.pc - 1 = Len(elems)
     THEN Return(Interpreter_pop_environment(m), IF f.pc = 1 THEN make_null ELSE m.retval)
     ELSE With(BindLoopVariable(m, f.node.identifier.name, elems[f.pc]), LAMBDA b :
            IF b.error # "none" THEN Interpreter_runtime_error(m, b.error)
            ELSE Call([m EXCEPT !.envs = b.envs], f.node.body))

Interpreter_execute_for_statement ==
  /\ Evaluating({"FOR_LOOP_STATEMENT"})
  /\ LET m == Machine
         f == Top(m)
         entered == IF f.pc = 1
                    THEN Keep([m EXCEPT !.envs = Append(@, Environment(m.current_env_)),
                                        !.current_env_ = Len(m.envs) + 1],
                              m.retval)
                    ELSE m
         iterable == Top(entered).vals[1]
     IN SetMachine(
          IF f.pc = 0 THEN Call(m, f.node.iterable)
          ELSE IF f.pc = 1 /\ is_null(m.retval)
          THEN Interpreter_runtime_error(m, "Cannot iterate over null value")
          ELSE IF ~is_gc_ptr(iterable)
          THEN Interpreter_runtime_error(entered, "Value is not iterable")
          ELSE IF as_gc_ptr(iterable) = DANGLING THEN Undefined(entered)
          ELSE IF entered.heap.tag[as_gc_ptr(iterable)] = "ARRAY"
          THEN ForArray(entered, entered.heap.elements[as_gc_ptr(iterable)])
          ELSE Interpreter_runtime_error(entered, "Object is not iterable"))

Interpreter_execute_block_statement ==
  /\ Evaluating({"BLOCK_STATEMENT"})
  /\ LET m == Machine
         f == Top(m)
         entered == IF f.pc = 0
                    THEN [m EXCEPT !.envs = Append(@, Environment(m.current_env_)),
                                   !.current_env_ = Len(m.envs) + 1,
                                   !.retval = make_null]
                    ELSE m
     IN SetMachine(
          IF (f.pc >= 1 /\ entered.has_return_) \/ f.pc = Len(f.node.statements)
          THEN Return(Interpreter_pop_environment(entered), entered.retval)
          ELSE Call(entered, f.node.statements[f.pc + 1]))

\* execute_while_statement: the condition, then the block, again and again;
\* vals holds the result of the last execution of the block
Interpreter_execute_while_statement ==
  /\ Evaluating({"WHILE_LOOP_STATEMENT"})
  /\ LET m == Machine
         f == Top(m)
         last == IF f.vals = <<>> THEN make_null ELSE f.vals[1]
     IN SetMachine(
          IF f.pc = 0 THEN Call(m, f.node.condition)
          ELSE IF f.pc = 1
          THEN IF Interpreter_is_truthy(m.retval) THEN Call(m, f.node.block)
               ELSE Return(m, last)
          ELSE IF m.has_return_ THEN Return(m, m.retval)
          ELSE Call([m EXCEPT !.callStack[Len(m.callStack)].pc = 0,
                              !.callStack[Len(m.callStack)].vals = <<m.retval>>],
                    f.node.condition))

(***************************************************************************)
(* The Compiler.  c = [m, scope_stack_, has_error_]; m.chunk is            *)
(* current_chunk_.  Operands are the 0-based indices of the code.          *)
(***************************************************************************)
CompilationScope(t) == [type |-> t, variables |-> NoVariables, variable_count |-> 0]

emit_instruction(c, opcode, operand) ==
  [c EXCEPT !.m.chunk.instructions = Append(@, [opcode |-> opcode, operand |-> operand])]

\* the jump is emitted with the placeholder operand 0; its index is returned
emit_jump(c, opcode) ==
  [c |-> emit_instruction(c, opcode, 0), index |-> Len(c.m.chunk.instructions)]

\* a patch_jump that leaves the placeholder in place
Chunk_patch_jumpNever(ch, instruction_index, target) == ch

\* BytecodeChunk::patch_jump: out of range indices are ignored
Chunk_patch_jump(ch, instruction_index, target) ==
  IF instruction_index < Len(ch.instructions)
  THEN [ch EXCEPT !.instructions[instruction_index + 1].operand = target]
  ELSE ch

\* the target is the index of the next instruction to be emitted
patch_jump(c, instruction_index) ==
  [c EXCEPT !.m.chunk = Chunk_patch_jump(@, instruction_index,
                                         Len(c.m.chunk.instructions))]

add_constant(c, x) ==
  [c |-> [c EXCEPT !.m.chunk.constants = Append(@, x)],
   index |-> Len(c.m.chunk.constants)]

add_variable_name(c, n) ==
  [c |-> [c EXCEPT !.m.chunk.variable_names = Append(@, n)],
   index |-> Len(c.m.chunk.variable_names)]

add_string_constant(c, str) ==
  With(Interpreter_allocate(c.m, "STRING", <<>>, str), LAMBDA a :
    add_constant([c EXCEPT !.m = a], make_gc_ptr(a.result)))

add_number_constant(c, n) == add_constant(c, make_int32(n))

resolve_variable(c, n) ==
  LET scope == Last(c.scope_stack_)
  IN IF n \in DOMAIN scope.variables
     THEN [c |-> c, index |-> scope.variables[n].index]
     ELSE add_variable_name(c, n)

define_variable(c, n, is_mutable) ==
  LET k == Len(c.scope_stack_)
      scope == c.scope_stack_[k]
      info == [name |-> n, is_mutable |-> is_mutable, index |-> scope.variable_count]
  IN add_variable_name(
       [c EXCEPT !.scope_stack_[k] =
          [scope EXCEPT !.variable_count = @ + 1,
                        !.variables = [v \in DOMAIN scope.variables \cup {n} |->
                                         IF v = n THEN info ELSE scope.variables[v]]]],
       n)

is_global_scope(c) == c.scope_stack_ # <<>> /\ Last(c.scope_stack_).type = "GLOBAL"

Compiler_error(c, message) == [c EXCEPT !.has_error_ = TRUE]

binary_op_to_opcode(token_type) ==
  CASE token_type = "PLUS" -> "ADD"
    [] token_type = "MINUS" -> "SUBTRACT"
    [] token_type = "ASTERISK" -> "MULTIPLY"
    [] token_type = "SLASH" -> "DIVIDE"
    [] token_type \in {"EQUAL", "NOT_EQUAL", "LESS", "GREATER", "LESS_EQUAL",
                       "GREATER_EQUAL", "AND", "OR"} -> token_type
    [] OTHER -> "HALT"

unary_op_to_opcode(token_type) ==
  CASE token_type = "MINUS" -> "NEGATE"
    [] token_type = "BANG" -> "NOT"
    [] OTHER -> "HALT"

RECURSIVE compile_expression(_, _)
RECURSIVE compile_expressions(_, _)
RECURSIVE compile_statement(_, _)
RECURSIVE compile_statements(_, _)

compile_expressions(c, exprs) ==
  IF exprs = <<>> THEN c
  ELSE compile_expressions(compile_expression(c, Head(exprs)), Tail(exprs))

compile_expression(c, expr) ==
  CASE expr.type = "INTEGER_LITERAL" ->
         LET k == add_number_constant(c, expr.value)
         IN emit_instruction(k.c, "LOAD_CONST", k.index)
    [] expr.type = "FLOAT_LITERAL" ->
         LET k == add_constant(c, make_double(Finite(expr.value)))
         IN emit_instruction(k.c, "LOAD_CONST", k.index)
    [] expr.type = "STRING_LITERAL" ->
         With(add_string_constant(c, expr.value), LAMBDA k :
           emit_instruction(k.c, "LOAD_CONST", k.index))
    [] expr.type = "UNARY_EXPRESSION" ->
         LET operand == compile_expression(c, expr.operand)
             opcode == unary_op_to_opcode(expr.operator_token)
         IN IF opcode # "HALT" THEN emit_instruction(operand, opcode, 0)
            ELSE Compiler_error(operand, "Unsupported unary operator")
    [] expr.type = "IDENTIFIER" ->
         LET r == resolve_variable(c, expr.name)
         IN emit_instruction(r.c, "LOAD_VAR", r.index)
    [] expr.type = "BINARY_EXPRESSION" ->
         LET operands == compile_expression(compile_expression(c, expr.left), expr.right)
             opcode == binary_op_to_opcode(expr.operator_token)
         IN IF opcode # "HALT" THEN emit_instruction(operands, opcode, 0)
            ELSE Compiler_error(operands, "Unsupported binary operator")
    [] expr.type = "ASSIGNMENT_EXPRESSION" ->
         LET compiled == compile_expression(c, expr.value)
         IN IF expr.target.type = "IDENTIFIER"
            THEN LET r == resolve_variable(compiled, expr.target.name)
                 IN emit_instruction(emit_instruction(r.c, "STORE_VAR", r.index), "DUP", 0)
            ELSE Compiler_error(compiled, "Invalid assignment target")
    [] expr.type = "ARRAY_LITERAL" ->
         emit_instruction(compile_expressions(c, expr.elements),
                          "BUILD_ARRAY", Len(expr.elements))
    [] expr.type = "CALL_EXPRESSION" ->
         emit_instruction(
           compile_expressions(compile_expression(c, expr.function), expr.arguments),
           "CALL", Len(expr.arguments))
    [] expr.type = "BOOLEAN_LITERAL" ->
         emit_instruction(c, IF expr.value THEN "LOAD_TRUE" ELSE "LOAD_FALSE", 0)
    [] expr.type = "IF_ELSE_EXPRESSION" ->
         With(emit_jump(compile_expression(c, expr.condition), "JUMP_IF_FALSE"),
              LAMBDA else_jump :
           With(compile_expression(else_jump.c, expr.then_expression), LAMBDA then_c :
             IF expr.else_expression # NoNode
             THEN With(emit_jump(then_c, "JUMP"), LAMBDA end_jump :
                    patch_jump(compile_expression(patch_jump(end_jump.c, else_jump.index),
                                                  expr.else_expression),
                               end_jump.index))
             ELSE emit_instruction(patch_jump(then_c, else_jump.index), "LOAD_NULL", 0)))

\* the statements of a program or of a block, up to the first error
compile_statements(c, stmts) ==
  IF stmts = <<>> \/ c.has_error_ THEN c
  ELSE compile_statements(compile_statement(c, Head(stmts)), Tail(stmts))

compile_statement(c, stmt) ==
  CASE stmt.type = "EXPRESSION_STATEMENT" ->
         With(compile_expression(c, stmt.expression), LAMBDA compiled :
           IF ~is_global_scope(compiled) THEN emit_instruction(compiled, "POP", 0)
           ELSE compiled)
    [] stmt.type = "VARIABLE_STATEMENT" ->
         With(define_variable(compile_expression(c, stmt.value),
                              stmt.name.name, stmt.is_mutable),
              LAMBDA d : emit_instruction(d.c, "DEFINE_VAR", d.index))
    [] stmt.type = "RETURN_STATEMENT" ->
         emit_instruction(compile_expression(c, stmt.return_value), "RETURN", 0)
    [] stmt.type = "BLOCK_STATEMENT" ->
         [compile_statements([c EXCEPT !.scope_stack_ = Append(@, CompilationScope("BLOCK"))],
                             stmt.statements)
            EXCEPT !.scope_stack_ = Front(@)]
    [] stmt.type = "WHILE_LOOP_STATEMENT" ->
         With(Len(c.m.chunk.instructions), LAMBDA loop_start :
           With(emit_jump(
                  compile_expression(
                    [c EXCEPT !.scope_stack_ = Append(@, CompilationScope("LOOP"))],
                    stmt.condition),
                  "JUMP_IF_FALSE"),
                LAMBDA exit_jump :
             [patch_jump(emit_instruction(compile_statement(exit_jump.c, stmt.block),
                                          "JUMP", loop_start),
                         exit_jump.index)
                EXCEPT !.scope_stack_ = Front(@)]))

Compiler_compile(m, prog) ==
  With(compile_statements([m |-> [m EXCEPT !.chunk = NoChunk],
                           scope_stack_ |-> <<CompilationScope("GLOBAL")>>,
                           has_error_ |-> FALSE],
                          prog.statements),
       LAMBDA c : IF c.has_error_ THEN c ELSE emit_instruction(c, "HALT", 0))

\* Interpreter::execute on the bytecode path, up to the first instruction:
\* compile, then VM::execute resets the VM and pushes the initial call frame
Compile ==
  /\ path = "bytecode" /\ status = "constructed"
  /\ \E c \in {Compiler_compile(Machine, program)} :
       SetMachine(
          IF c.m.status = "undefined" THEN c.m
          ELSE IF c.has_error_
          THEN Interpreter_runtime_error(c.m, "Failed to compile program to bytecode")
          ELSE [c.m EXCEPT !.status = "running", !.stack_ = <<>>,
                           !.frames_ = <<[instruction_pointer |-> 0, stack_base |-> 0]>>,
                           !.has_error_ = FALSE, !.error_message = ""])

\* VM::set_global, called before execute with a builtin of the interpreter:
\* global_env_->define(name, value, false)
VM_set_global ==
  /\ path = "bytecode" /\ status = "constructed"
  /\ \E i \in 1..Len(BuiltinNames) :
       /\ ~Binds(envs, VMGlobalEnv, BuiltinNames[i])
       /\ SetMachine([Machine EXCEPT
            !.envs = Env_define(envs, VMGlobalEnv, BuiltinNames[i],
                                Env_get(envs, GlobalEnv, BuiltinNames[i]).value, FALSE)])

\* Compiler::compile on its own: the chunk is returned, or nullptr on an error
Compiler_compile_program ==
  /\ path = "none" /\ status = "idle"
  /\ \E c \in {Compiler_compile(Machine, program)} :
       SetMachine([c.m EXCEPT !.path = "compiler",
                              !.status = IF c.has_error_ THEN "compile_error"
                                         ELSE "compiled",
                              !.chunk = IF c.has_error_ THEN NoChunk ELSE @])

(***************************************************************************)
(* The VM: VM::run fetches the instruction and calls its handler; one      *)
(* action per opcode.                                                      *)
(***************************************************************************)
VM_runtime_error(m, message) == [m EXCEPT !.has_error_ = TRUE, !.error_message = message]

\* a push without the test for a full stack
VM_pushUnchecked(m, x) == [m EXCEPT !.stack_ = Append(@, x)]

VM_push(m, x) ==
  IF Len(m.stack_) >= STACK_MAX THEN VM_runtime_error(m, "Stack overflow")
  ELSE [m EXCEPT !.stack_ = Append(@, x)]

VM_pop(m) ==
  IF m.stack_ = <<>>
  THEN [m |-> VM_runtime_error(m, "Stack underflow"), value |-> make_null]
  ELSE [m |-> [m EXCEPT !.stack_ = Front(@)], value |-> Last(m.stack_)]

VM_peek(m, distance) ==
  IF distance >= Len(m.stack_)
  THEN [m |-> VM_runtime_error(m, "Stack underflow in peek"), value |-> make_null]
  ELSE [m |-> m, value |-> m.stack_[Len(m.stack_) - distance]]

handle_load_const(m, operand) ==
  IF operand >= Len(m.chunk.constants) THEN VM_runtime_error(m, "Invalid constant index")
  ELSE VM_push(m, m.chunk.constants[operand + 1])

handle_load_var(m, operand) ==
  IF operand >= Len(m.chunk.variable_names) THEN VM_runtime_error(m, "Invalid variable index")
  ELSE LET g == Env_get(m.envs, VMGlobalEnv, m.chunk.variable_names[operand + 1])
       IN IF g.error # "none" THEN VM_runtime_error(m, "Undefined variable")
          ELSE VM_push(m, g.value)

handle_store_var(m, operand) ==
  IF operand >= Len(m.chunk.variable_names) THEN VM_runtime_error(m, "Invalid variable index")
  ELSE LET p == VM_peek(m, 0)
           s == Env_set(p.m.envs, VMGlobalEnv, m.chunk.variable_names[operand + 1], p.value)
       IN IF s.error # "none" THEN VM_runtime_error(p.m, "Cannot assign to variable")
          ELSE [p.m EXCEPT !.envs = s.envs]

handle_define_var(m, operand) ==
  IF operand >= Len(m.chunk.variable_names) THEN VM_runtime_error(m, "Invalid variable index")
  ELSE LET p == VM_pop(m)
       IN [p.m EXCEPT !.envs = Env_define(p.m.envs, VMGlobalEnv,
                                          m.chunk.variable_names[operand + 1], p.value, TRUE)]

VM_is_truthy(x) ==
  IF is_bool(x) THEN as_bool(x)
  ELSE IF is_null(x) THEN FALSE
  ELSE IF is_int32(x) THEN as_int32(x) # 0
  ELSE IF is_double(x) THEN ~DoubleEqual(as_double(x), Finite(0))
  ELSE TRUE

VM_are_equal(left, right) ==
  IF is_null(left) /\ is_null(right) THEN TRUE
  ELSE IF is_null(left) \/ is_null(right) THEN FALSE
  ELSE IF is_bool(left) /\ is_bool(right) THEN as_bool(left) = as_bool(right)
  ELSE IF is_int32(left) /\ is_int32(right) THEN as_int32(left) = as_int32(right)
  ELSE IF is_double(left) /\ is_double(right)
  THEN DoubleEqual(as_double(left), as_double(right))
  ELSE IF (is_int32(left) /\ is_double(right)) \/ (is_double(left) /\ is_int32(right))
  THEN DoubleEqual(Number(left), Number(right))
  ELSE IF is_gc_ptr(left) /\ is_gc_ptr(right) THEN as_gc_ptr(left) = as_gc_ptr(right)
  ELSE FALSE

\* the second branch is taken when either operand is a double: the other
\* one, when it is no int32, is read with as_double whatever it is
VM_perform_numeric_operation(left, right, operation) ==
  IF is_int32(left) /\ is_int32(right)
  THEN [ok |-> TRUE,
        result |->
          CASE operation = "ADD" -> make_int32(as_int32(left) + as_int32(right))
            [] operation = "SUBTRACT" -> make_int32(as_int32(left) - as_int32(right))
            [] operation = "MULTIPLY" -> make_int32(as_int32(left) * as_int32(right))
            [] operation = "DIVIDE" ->
                 make_double(DoubleDivide(Widened(as_int32(left)), Widened(as_int32(right))))]
  ELSE IF is_double(left) \/ is_double(right)
  THEN [ok |-> TRUE,
        result |->
          make_double(
            CASE operation = "ADD" -> DoubleAdd(Number(left), Number(right))
              [] operation = "SUBTRACT" -> DoubleSubtract(Number(left), Number(right))
              [] operation = "MULTIPLY" -> DoubleMultiply(Number(left), Number(right))
              [] operation = "DIVIDE" -> DoubleDivide(Number(left), Number(right)))]
  ELSE [ok |-> FALSE, result |-> make_null]

VM_perform_comparison_operation(left, right, operation) ==
  IF (is_int32(left) /\ is_int32(right)) \/ is_double(left) \/ is_double(right)
  THEN [ok |-> TRUE,
        result |->
          make_bool(
            CASE operation = "LESS" -> DoubleLess(Number(left), Number(right))
              [] operation = "GREATER" -> DoubleLess(Number(right), Number(left))
              [] operation = "LESS_EQUAL" ->
                   \/ DoubleLess(Number(left), Number(right))
                   \/ DoubleEqual(Number(left), Number(right))
              [] operation = "GREATER_EQUAL" ->
                   \/ DoubleLess(Number(right), Number(left))
                   \/ DoubleEqual(Number(left), Number(right)))]
  ELSE [ok |-> FALSE, result |-> make_null]

\* handle_add, handle_subtract, handle_multiply: pop right, pop left, push
\* the result or raise the error
VM_numeric(m, operation, message) ==
  LET r == VM_pop(m)
      l == VM_pop(r.m)
      n == VM_perform_numeric_operation(l.value, r.value, operation)
  IN IF n.ok THEN VM_push(l.m, n.result) ELSE VM_runtime_error(l.m, message)

handle_add(m) == VM_numeric(m, "ADD", "Invalid operands for addition")

handle_subtract(m) == VM_numeric(m, "SUBTRACT", "Invalid operands for subtraction")

handle_multiply(m) == VM_numeric(m, "MULTIPLY", "Invalid operands for multiplication")

\* a handle_divide without the test of the divisor
handle_divideUnchecked(m) == VM_numeric(m, "DIVIDE", "Invalid operands for division")

handle_divide(m) ==
  LET r == VM_pop(m)
      l == VM_pop(r.m)
  IN IF \/ is_int32(r.value) /\ as_int32(r.value) = 0
        \/ is_double(r.value) /\ DoubleEqual(as_double(r.value), Finite(0))
     THEN VM_runtime_error(l.m, "Division by zero")
     ELSE VM_numeric(m, "DIVIDE", "Invalid operands for division")

handle_negate(m) ==
  LET p == VM_pop(m)
  IN IF is_int32(p.value) THEN VM_push(p.m, make_int32(-as_int32(p.value)))
     ELSE IF is_double(p.value)
     THEN VM_push(p.m, make_double(DoubleNegate(as_double(p.value))))
     ELSE VM_runtime_error(p.m, "Invalid operand for negation")

handle_equal(m) ==
  LET r == VM_pop(m)
      l == VM_pop(r.m)
  IN VM_push(l.m, make_bool(VM_are_equal(l.value, r.value)))

handle_not_equal(m) ==
  LET r == VM_pop(m)
      l == VM_pop(r.m)
  IN VM_push(l.m, make_bool(~VM_are_equal(l.value, r.value)))

\* handle_less, handle_greater, handle_less_equal, handle_greater_equal
VM_comparison(m, operation) ==
  LET r == VM_pop(m)
      l == VM_pop(r.m)
      n == VM_perform_comparison_operation(l.value, r.value, operation)
  IN IF n.ok THEN VM_push(l.m, n.result)
     ELSE VM_runtime_error(l.m, "Invalid operands for comparison")

handle_not(m) ==
  LET p == VM_pop(m) IN VM_push(p.m, make_bool(~VM_is_truthy(p.value)))

handle_and(m) ==
  LET r == VM_pop(m)
      l == VM_pop(r.m)
  IN VM_push(l.m, make_bool(VM_is_truthy(l.value) /\ VM_is_truthy(r.value)))

handle_or(m) ==
  LET r == VM_pop(m)
      l == VM_pop(r.m)
  IN VM_push(l.m, make_bool(VM_is_truthy(l.value) \/ VM_is_truthy(r.value)))

handle_jump(m, operand) == [m EXCEPT !.frames_[Len(m.frames_)].instruction_pointer = operand]

handle_jump_if_false(m, operand) ==
  LET p == VM_pop(m)
  IN IF ~VM_is_truthy(p.value) THEN handle_jump(p.m, operand) ELSE p.m

RECURSIVE PopArguments(_, _, _)
PopArguments(m, count, acc) ==
  IF count = 0 THEN [m |-> m, values |-> acc]
  ELSE LET p == VM_pop(m) IN PopArguments(p.m, count - 1, <<p.value>> \o acc)

\* a call_builtin without the arity check
VM_call_builtinUnchecked(m, function, argc) ==
  LET args == PopArguments(m, argc, <<>>)
      popped == VM_pop(args.m)
  IN VM_push(VM_runtime_error(popped.m, "Builtin function calls not yet implemented in VM"),
             make_null)

VM_call_builtin(m, function, argc) ==
  IF BuiltinArity(m.text[function]) # SIZE_MAX /\ argc # BuiltinArity(m.text[function])
  THEN VM_runtime_error(m, "Wrong number of arguments")
  ELSE LET args == PopArguments(m, argc, <<>>)
           popped == VM_pop(args.m)
       IN VM_push(VM_runtime_error(popped.m, "Builtin function calls not yet implemented in VM"),
                  make_null)

handle_call(m, argc) ==
  LET p == VM_peek(m, argc)
  IN IF ~is_gc_ptr(p.value) THEN VM_runtime_error(p.m, "Not a function")
     ELSE IF as_gc_ptr(p.value) = DANGLING THEN Undefined(m)
     ELSE IF m.heap.tag[as_gc_ptr(p.value)] = "BUILTIN_FUNCTION"
     THEN VM_call_builtin(m, as_gc_ptr(p.value), argc)
     ELSE VM_runtime_error(m, "Not a callable object")

handle_return(m) ==
  LET p == VM_pop(m)
  IN IF Len(m.frames_) <= 1 THEN VM_push(p.m, p.value)
     ELSE LET frame == Last(m.frames_)
              base == IF Len(p.m.stack_) > frame.stack_base THEN frame.stack_base
                      ELSE Len(p.m.stack_)
          IN VM_push([p.m EXCEPT !.frames_ = Front(@), !.stack_ = SubSeq(@, 1, base)], p.value)

handle_build_array(m, count) ==
  With(PopArguments(m, count, <<>>), LAMBDA popped :
    With(Interpreter_allocate(popped.m, "ARRAY", popped.values, ""), LAMBDA a :
      IF a.status = "undefined" THEN a ELSE VM_push(a, make_gc_ptr(a.result))))

handle_pop(m) == VM_pop(m).m

handle_dup(m) == LET p == VM_peek(m, 0) IN VM_push(p.m, p.value)

VM_get_result(m) == IF m.stack_ = <<>> THEN make_null ELSE Last(m.stack_)

CurrentInstruction == chunk.instructions[Last(frames_).instruction_pointer + 1]

Executing(opcode) ==
  /\ Running("bytecode")
  /\ frames_ # <<>>
  /\ Last(frames_).instruction_pointer < Len(chunk.instructions)
  /\ CurrentInstruction.opcode = opcode

\* chunk.instructions[frame.instruction_pointer++]
Fetched == [Machine EXCEPT !.frames_[Len(frames_)].instruction_pointer = @ + 1]

\* a run loop that does not test has_error_ after the handler
VM_runResuming(m) == m

\* after the handler: if (has_error_) return RUNTIME_ERROR, which
\* Interpreter::execute turns into runtime_error("VM execution failed: ...")
VM_run(m) ==
  IF m.status = "undefined" THEN m
  ELSE IF m.has_error_ THEN Interpreter_runtime_error(m, m.error_message)
  ELSE m

VM_LOAD_CONST ==
  Executing("LOAD_CONST") /\ SetMachine(VM_run(handle_load_const(Fetched, CurrentInstruction.operand)))

VM_LOAD_VAR ==
  Executing("LOAD_VAR") /\ SetMachine(VM_run(handle_load_var(Fetched, CurrentInstruction.operand)))

VM_STORE_VAR ==
  Executing("STORE_VAR") /\ SetMachine(VM_run(handle_store_var(Fetched, CurrentInstruction.operand)))

VM_DEFINE_VAR ==
  Executing("DEFINE_VAR") /\ SetMachine(VM_run(handle_define_var(Fetched, CurrentInstruction.operand)))

VM_ADD == Executing("ADD") /\ SetMachine(VM_run(handle_add(Fetched)))

VM_SUBTRACT == Executing("SUBTRACT") /\ SetMachine(VM_run(handle_subtract(Fetched)))

VM_MULTIPLY == Executing("MULTIPLY") /\ SetMachine(VM_run(handle_multiply(Fetched)))

VM_DIVIDE == Executing("DIVIDE") /\ SetMachine(VM_run(handle_divide(Fetched)))

VM_NEGATE == Executing("NEGATE") /\ SetMachine(VM_run(handle_negate(Fetched)))

VM_EQUAL == Executing("EQUAL") /\ SetMachine(VM_run(handle_equal(Fetched)))

VM_NOT_EQUAL == Executing("NOT_EQUAL") /\ SetMachine(VM_run(handle_not_equal(Fetched)))

VM_LESS == Executing("LESS") /\ SetMachine(VM_run(VM_comparison(Fetched, "LESS")))

VM_GREATER == Executing("GREATER") /\ SetMachine(VM_run(VM_comparison(Fetched, "GREATER")))

VM_LESS_EQUAL ==
  Executing("LESS_EQUAL") /\ SetMachine(VM_run(VM_comparison(Fetched, "LESS_EQUAL")))

VM_GREATER_EQUAL ==
  Executing("GREATER_EQUAL") /\ SetMachine(VM_run(VM_comparison(Fetched, "GREATER_EQUAL")))

VM_NOT == Executing("NOT") /\ SetMachine(VM_run(handle_not(Fetched)))

VM_AND == Executing("AND") /\ SetMachine(VM_run(handle_and(Fetched)))

VM_OR == Executing("OR") /\ SetMachine(VM_run(handle_or(Fetched)))

VM_JUMP == Executing("JUMP") /\ SetMachine(VM_run(handle_jump(Fetched, CurrentInstruction.operand)))

VM_JUMP_IF_FALSE ==
  Executing("JUMP_IF_FALSE")
    /\ SetMachine(VM_run(handle_jump_if_false(Fetched, CurrentInstruction.operand)))

VM_LOAD_NULL == Executing("LOAD_NULL") /\ SetMachine(VM_run(VM_push(Fetched, make_null)))

VM_LOAD_TRUE == Executing("LOAD_TRUE") /\ SetMachine(VM_run(VM_push(Fetched, make_bool(TRUE))))

VM_LOAD_FALSE ==
  Executing("LOAD_FALSE") /\ SetMachine(VM_run(VM_push(Fetched, make_bool(FALSE))))

VM_CALL == Executing("CALL") /\ SetMachine(VM_run(handle_call(Fetched, CurrentInstruction.operand)))

VM_RETURN == Executing("RETURN") /\ SetMachine(VM_run(handle_return(Fetched)))

VM_BUILD_ARRAY ==
  Executing("BUILD_ARRAY") /\ SetMachine(VM_run(handle_build_array(Fetched, CurrentInstruction.operand)))

VM_POP == Executing("POP") /\ SetMachine(VM_run(handle_pop(Fetched)))

VM_DUP == Executing("DUP") /\ SetMachine(VM_run(handle_dup(Fetched)))

\* HALT: run returns OK and Interpreter::execute returns vm_->get_result()
VM_HALT == Executing("HALT") /\ SetMachine(Finish(Fetched, VM_get_result(Fetched)))

NextExec ==
  \/ \E use_bytecode \in BOOLEAN : Interpreter_new(use_bytecode)
  \/ Interpreter_execute
  \/ Interpreter_evaluate_literal
  \/ Interpreter_evaluate_identifier
  \/ Interpreter_evaluate_binary
  \/ Interpreter_evaluate_assignment
  \/ Interpreter_evaluate_array_literal
  \/ Interpreter_evaluate_call
  \/ Interpreter_execute_expression_statement
  \/ Interpreter_execute_variable_statement
  \/ Interpreter_execute_return_statement
  \/ Interpreter_execute_block_statement
  \/ Compile
  \/ VM_LOAD_CONST
  \/ VM_LOAD_VAR
  \/ VM_STORE_VAR
  \/ VM_DEFINE_VAR
  \/ VM_ADD
  \/ VM_CALL
  \/ VM_RETURN
  \/ VM_BUILD_ARRAY
  \/ VM_POP
  \/ VM_DUP
  \/ VM_HALT


Init == InitHeap /\ InitEnv /\ InitExec /\ InitValue /\ program = NoProgram

Next == NextHeap

Spec == Init /\ [][Next]_vars

(***************************************************************************)
(* The heap driven by allocate and root registration only: every           *)
(* collection is one that allocate itself starts at the threshold.         *)
(***************************************************************************)
NextAlloc ==
  \/ \E kind \in {"STRING"} : Allocate(kind, InitialThreshold)
  \/ \E s \in Slots : AddRoot(s)
  \/ \E s \in Slots : RemoveRoot(s)
  \/ \E s \in Slots, p \in ObjIds \cup {NULL} : SetSlot(s, p)

SpecAlloc == Init /\ [][NextAlloc]_vars

SpecEnv == Init /\ [][NextEnv]_vars

(***************************************************************************)
(* A program run by the tree-walker and then, compiled, by the VM.         *)
(***************************************************************************)
InitRun ==
  /\ InitHeap /\ InitEnv /\ InitExec /\ InitValue
  /\ \E i \in 1..MaxProgram : i <= Len(Programs) /\ program = Programs[i]

SpecRun == InitRun /\ [][NextExec]_vars

(***************************************************************************)
(* A program of nested if/else expressions and while loops, compiled.      *)
(***************************************************************************)
InitCompile ==
  /\ InitHeap /\ InitEnv /\ InitExec /\ InitValue
  /\ program \in JumpPrograms

NextCompile == Compiler_compile_program

SpecCompile == InitCompile /\ [][NextCompile]_vars

(***************************************************************************)
(* A call run by the tree-walker and then by a VM whose globals hold       *)
(* builtins.                                                               *)
(***************************************************************************)
InitCall ==
  /\ InitHeap /\ InitEnv /\ InitExec /\ InitValue
  /\ \E i \in 1..Len(CallPrograms) : program = CallPrograms[i]

NextCall ==
  \/ \E use_bytecode \in BOOLEAN : Interpreter_new(use_bytecode)
  \/ Interpreter_execute
  \/ Interpreter_evaluate_literal
  \/ Interpreter_evaluate_identifier
  \/ Interpreter_evaluate_array_literal
  \/ Interpreter_evaluate_call
  \/ Interpreter_execute_expression_statement
  \/ VM_set_global
  \/ Compile
  \/ VM_LOAD_CONST
  \/ VM_LOAD_VAR
  \/ VM_BUILD_ARRAY
  \/ VM_CALL
  \/ VM_HALT

SpecCall == InitCall /\ [][NextCall]_vars

(***************************************************************************)
(* Functions, blocks and for-in loops run by the tree-walker.              *)
(***************************************************************************)
InitTree ==
  /\ InitHeap /\ InitEnv /\ InitExec /\ InitValue
  /\ \E i \in 1..Len(TreePrograms) : program = TreePrograms[i]

NextTree ==
  \/ Interpreter_new(FALSE)
  \/ Interpreter_execute
  \/ Interpreter_evaluate_literal
  \/ Interpreter_evaluate_identifier
  \/ Interpreter_evaluate_binary
  \/ Interpreter_evaluate_assignment
  \/ Interpreter_evaluate_array_literal
  \/ Interpreter_evaluate_call
  \/ Interpreter_execute_expression_statement
  \/ Interpreter_execute_variable_statement
  \/ Interpreter_execute_return_statement
  \/ Interpreter_execute_function_statement
  \/ Interpreter_execute_for_statement
  \/ Interpreter_execute_block_statement

SpecTree == InitTree /\ [][NextTree]_vars

(***************************************************************************)
(* One operator applied to two operands, or to one, run by the tree-walker *)
(* and then, compiled, by the VM.                                          *)
(***************************************************************************)
InitOps ==
  /\ InitHeap /\ InitEnv /\ InitExec /\ InitValue
  /\ \/ \E i \in 1..Len(Operands), j \in 1..Len(Operands), k \in 1..Len(BinaryTokens) :
          program = OperatorProgram(
                      BinaryExpressionNode(Operands[i], BinaryTokens[k], Operands[j]))
     \/ \E i \in 1..Len(Operands), k \in 1..Len(UnaryTokens) :
          program = OperatorProgram(UnaryExpressionNode(UnaryTokens[k], Operands[i]))
     \/ \E i \in 1..Len(EffectLefts), k \in 1..Len(BinaryTokens) :
          program = EffectProgram(EffectLefts[i], BinaryTokens[k], EffectRight)
     \/ \E i \in 1..Len(IfConditions), j \in 1..Len(IfElses) :
          program = IfProgram(IfConditions[i], IfElses[j])

NextOps ==
  \/ \E use_bytecode \in BOOLEAN : Interpreter_new(use_bytecode)
  \/ Interpreter_execute
  \/ Interpreter_evaluate_literal
  \/ Interpreter_evaluate_identifier
  \/ Interpreter_evaluate_binary
  \/ Interpreter_evaluate_unary
  \/ Interpreter_evaluate_if_else
  \/ Interpreter_evaluate_assignment
  \/ Interpreter_execute_expression_statement
  \/ Interpreter_execute_variable_statement
  \/ Compile
  \/ VM_LOAD_CONST
  \/ VM_LOAD_VAR
  \/ VM_STORE_VAR
  \/ VM_DEFINE_VAR
  \/ VM_DUP
  \/ VM_LOAD_NULL
  \/ VM_LOAD_TRUE
  \/ VM_LOAD_FALSE
  \/ VM_JUMP
  \/ VM_JUMP_IF_FALSE
  \/ VM_ADD
  \/ VM_SUBTRACT
  \/ VM_MULTIPLY
  \/ VM_DIVIDE
  \/ VM_NEGATE
  \/ VM_EQUAL
  \/ VM_NOT_EQUAL
  \/ VM_LESS
  \/ VM_GREATER
  \/ VM_LESS_EQUAL
  \/ VM_GREATER_EQUAL
  \/ VM_NOT
  \/ VM_AND
  \/ VM_OR
  \/ VM_HALT

SpecOps == InitOps /\ [][NextOps]_vars

(***************************************************************************)
(* While loops, run by the tree-walker and then, compiled, by the VM.      *)
(***************************************************************************)
InitLoop ==
  /\ InitHeap /\ InitEnv /\ InitExec /\ InitValue
  /\ \E i \in 1..Len(LoopPrograms) : program = LoopPrograms[i]

NextLoop ==
  \/ \E use_bytecode \in BOOLEAN : Interpreter_new(use_bytecode)
  \/ Interpreter_execute
  \/ Interpreter_evaluate_literal
  \/ Interpreter_evaluate_identifier
  \/ Interpreter_evaluate_binary
  \/ Interpreter_evaluate_if_else
  \/ Interpreter_evaluate_assignment
  \/ Interpreter_execute_expression_statement
  \/ Interpreter_execute_variable_statement
  \/ Interpreter_execute_block_statement
  \/ Interpreter_execute_while_statement
  \/ Compile
  \/ VM_LOAD_CONST
  \/ VM_LOAD_VAR
  \/ VM_STORE_VAR
  \/ VM_DEFINE_VAR
  \/ VM_DUP
  \/ VM_POP
  \/ VM_JUMP
  \/ VM_JUMP_IF_FALSE
  \/ VM_ADD
  \/ VM_LESS
  \/ VM_HALT

SpecLoop == InitLoop /\ [][NextLoop]_vars

(***************************************************************************)
(* The VM on its own, executing a chunk that fills or drains its stack.    *)
(***************************************************************************)
Instruction(opcode, operand) == [opcode |-> opcode, operand |-> operand]

\* the chunk of n expression statements `1;` at global scope, where no POP
\* is emitted, followed by more instructions
Pushes(n, more) ==
  [instructions |-> [i \in 1..n |-> Instruction("LOAD_CONST", 0)] \o more,
   constants |-> <<make_int32(1)>>, variable_names |-> <<>>]

StackChunks ==
  <<Pushes(MaxPushes - 1, <<Instruction("HALT", 0)>>),
    Pushes(MaxPushes, <<Instruction("HALT", 0)>>),
    Pushes(MaxPushes - 1, <<Instruction("DUP", 0), Instruction("HALT", 0)>>),
    Pushes(0, <<Instruction("POP", 0), Instruction("HALT", 0)>>),
    Pushes(0, <<Instruction("DUP", 0), Instruction("HALT", 0)>>),
    Pushes(1, <<Instruction("ADD", 0), Instruction("HALT", 0)>>),
    Pushes(2, <<Instruction("ADD", 0), Instruction("POP", 0), Instruction("HALT", 0)>>),
    Pushes(1, <<Instruction("POP", 0), Instruction("POP", 0), Instruction("HALT", 0)>>)>>

\* VM::VM(heap) and VM::execute(chunk) up to the first instruction
VM_execute ==
  /\ path = "none" /\ status = "idle"
  /\ \E i \in 1..Len(StackChunks) :
       SetMachine([Machine EXCEPT
         !.path = "bytecode", !.status = "running",
         !.envs = <<Environment(NULL), Environment(NULL)>>, !.current_env_ = GlobalEnv,
         !.chunk = StackChunks[i], !.stack_ = <<>>,
         !.frames_ = <<[instruction_pointer |-> 0, stack_base |-> 0]>>,
         !.has_error_ = FALSE, !.error_message = ""])

NextStack ==
  \/ VM_execute
  \/ VM_LOAD_CONST
  \/ VM_ADD
  \/ VM_POP
  \/ VM_DUP
  \/ VM_HALT

SpecStack == Init /\ [][NextStack]_vars

(***************************************************************************)
(* A PEBBLObject on its own: any 64-bit word, then the factories.          *)
(***************************************************************************)
InitWord ==
  /\ InitHeap /\ InitEnv /\ InitExec /\ program = NoProgram
  /\ bits \in Words
  /\ made = "word"

SpecValue == InitWord /\ [][NextValue]_vars

(***************************************************************************)
(* Properties of the heap.                                                 *)
(***************************************************************************)
Live == Range(objects_)

CollectOps == {"collect", "collect2", "allocate_gc"}

Successors(S) ==
  {p \in ObjIds : \E o \in S : tag[o] = "ARRAY" /\ \E i \in 1..Len(elements[o]) :
                      is_gc_ptr(elements[o][i]) /\ as_gc_ptr(elements[o][i]) = p}

\* the objects reachable from a set of objects, by closure of the graph
RECURSIVE ReachClosure(_)
ReachClosure(S) ==
  LET T == S \cup Successors(S)
  IN IF T = S THEN S ELSE ReachClosure(T)

ReachableFromRoots == ReachClosure(Range(RootPtrs) \ {NULL})

OnCycle(o) == o \in ReachClosure(Successors({o}))

\* C1: the pointer allocate returns refers to an object that is still linked
\* in the allocation list when allocate returns.
C1_ReturnedPointerLive ==
  op \in {"allocate", "allocate_gc"} => result \in Live

\* C4: when a collection cycle ends, the allocation list holds exactly the
\* objects that were reachable from the roots when the cycle began, each once,
\* and object_count_ is their number.
C4_SurvivorsAreTheReachable ==
  [][op' \in CollectOps =>
       /\ Range(objects_') = ReachableFromRoots
       /\ Len(objects_') = Cardinality(ReachableFromRoots)
       /\ object_count_' = Cardinality(ReachableFromRoots)]_vars

\* a collection ended with a survivor that lies on a cycle, a survivor that two
\* roots reach, and the last allocated object destroyed
C4_Witness ==
  /\ op \in CollectOps
  /\ \E o \in Live : OnCycle(o)
  /\ Len(roots_) = 2 /\ slot[roots_[1]] # NULL
  /\ \E o \in Live : o # slot[roots_[1]] /\ o \in ReachClosure({slot[roots_[1]]})
                       /\ o \in ReachClosure({slot[roots_[2]]} \ {NULL})
  /\ result = DANGLING

\* C5: outside a collection cycle every object in the allocation list has
\* marked = false.
C5_NoMarkOutsideCollection ==
  \A o \in ObjIds : ~marked[o]

\* a collection ended with survivors, which the mark phase had marked
C5_Witness ==
  /\ op \in CollectOps
  /\ object_count_ >= 2

\* C6 as stated: after a collection with n survivors next_gc_ = max(8, 2n),
\* and next_gc_ is never below the initial 8.
C6_ThresholdAtLeastInitial ==
  /\ next_gc_ >= InitialThreshold
  /\ op \in CollectOps =>
       next_gc_ = (IF 2 * object_count_ > InitialThreshold THEN 2 * object_count_
                   ELSE InitialThreshold)

\* C6 amended: after a collection with n survivors next_gc_ = 2n, and an
\* allocate call collects exactly when the incremented count reaches next_gc_.
C6_ThresholdIsTwiceSurvivors ==
  [][/\ op' \in CollectOps => next_gc_' = 2 * object_count_'
     /\ op' \in {"allocate", "allocate_gc"} =>
          (op' = "allocate_gc" <=> object_count_ + 1 >= next_gc_)]_vars

\* a collection left one survivor and a threshold below the initial one, and
\* an allocation below that threshold did not collect
C6_Witness ==
  /\ op = "allocate"
  /\ next_gc_ < InitialThreshold
  /\ object_count_ < next_gc_

\* C7: a collect() that directly follows a collect() leaves the allocation
\* list and the live count as the first one left them.
C7_SecondCollectChangesNothing ==
  [][op' = "collect2" => objects_' = objects_ /\ object_count_' = object_count_]_vars

\* two collections in a row ran on a heap with survivors, after garbage went
C7_Witness ==
  /\ op = "collect2"
  /\ object_count_ >= 1
  /\ result = DANGLING

(***************************************************************************)
(* Properties of the Environment.                                          *)
(***************************************************************************)
\* the frames of the chain that starts at e, innermost first
RECURSIVE Chain(_, _)
Chain(E, e) == IF e = NULL THEN <<>> ELSE <<e>> \o Chain(E, E[e].parent_)

\* the innermost frame of the chain of e that binds name, or NULL
InnermostBinder(E, e, name) ==
  LET c == Chain(E, e)
      hits == {i \in 1..Len(c) : name \in DOMAIN E[c[i]].variables_}
  IN IF hits = {} THEN NULL ELSE c[Min(hits)]

\* C9: after define(name, value, mutable) on E, get(name) on E returns value
\* and the binding has that mutability, whatever was bound before; no other
\* environment is changed.
C9_DefineBindsTheValue ==
  [][\A e \in EnvIds, name \in EnvNames, value \in EnvValues, m \in BOOLEAN :
       Define(e, name, value, m) =>
         /\ Env_get(envs', e, name) = [error |-> "none", value |-> value]
         /\ envs'[e].variables_[name].is_mutable = m
         /\ \A a \in EnvIds \ {e} : envs'[a] = envs[a]]_vars

\* C10: set(name, value) assigns to the innermost binding of name when that is
\* mutable and to nothing else, fails with ImmutableAssignment when it is
\* immutable and with UndefinedName when no frame binds name, and a failed set
\* changes no binding.
C10_SetAssignsInnermostOrFails ==
  [][\A e \in EnvIds, name \in EnvNames, value \in EnvValues :
       Set(e, name, value) =>
         LET f == InnermostBinder(envs, e, name) IN
           IF f = NULL THEN envCall'.error = "UndefinedName" /\ envs' = envs
           ELSE IF envs[f].variables_[name].is_mutable
           THEN /\ envCall'.error = "none"
                /\ envs' = [envs EXCEPT ![f].variables_[name].value = value]
           ELSE envCall'.error = "ImmutableAssignment" /\ envs' = envs]_vars

\* a set from the inner frame went through to a mutable binding of the outer
\* frame
C10_Witness ==
  /\ envCall.op = "set" /\ envCall.error = "none"
  /\ Len(envs) >= 2 /\ envCall.env = 2
  /\ envs[2].parent_ = 1
  /\ ~Binds(envs, 2, envCall.name) /\ Binds(envs, 1, envCall.name)

\* C11: set(name, value) leaves the set of names bound in every frame as it
\* was, whether it succeeds or fails, and a name becomes bound in a frame only
\* by a define of that name on that frame.
C11_SetCreatesNoBinding ==
  [][/\ \A e \in EnvIds, name \in EnvNames, value \in EnvValues :
          Set(e, name, value) =>
            /\ Len(envs') = Len(envs)
            /\ \A a \in EnvIds : DOMAIN envs'[a].variables_ = DOMAIN envs[a].variables_
     /\ \A a \in EnvIds, n \in EnvNames :
          (~Binds(envs, a, n) /\ Len(envs') >= a /\ Binds(envs', a, n)) =>
            envCall' = [NoCall EXCEPT !.op = "define", !.env = a, !.name = n]]_vars

\* a set failed because no frame of a chain of two frames binds the name
C11_Witness ==
  /\ envCall.op = "set" /\ envCall.error = "UndefinedName"
  /\ Len(envs) >= 2 /\ envCall.env = 2 /\ envs[2].parent_ = 1
  /\ ~Binds(envs, 1, envCall.name) /\ ~Binds(envs, 2, envCall.name)

\* C12: get(name) returns the value of the innermost frame of the chain that
\* binds name and fails with UndefinedName when none does; exists(name) is
\* true exactly when some frame of the chain binds name, that is when get
\* succeeds; neither changes a binding.
C12_GetReadsInnermostBinding ==
  [][envCall'.op \in {"get", "exists"} =>
       LET f == InnermostBinder(envs, envCall'.env, envCall'.name) IN
         /\ envs' = envs
         /\ envCall'.op = "get" =>
              IF f = NULL THEN envCall'.error = "UndefinedName"
              ELSE /\ envCall'.error = "none"
                   /\ envCall'.found = envs[f].variables_[envCall'.name].value
         /\ envCall'.op = "exists" =>
              /\ envCall'.found.v = (f # NULL)
              /\ envCall'.found.v = (Env_get(envs, envCall'.env, envCall'.name).error = "none")]_vars

\* a get on the inner frame returned the value bound in the outer frame
C12_Witness ==
  /\ envCall.op = "get" /\ envCall.error = "none"
  /\ Len(envs) >= 2 /\ envCall.env = 2 /\ envs[2].parent_ = 1
  /\ ~Binds(envs, 2, envCall.name) /\ Binds(envs, 1, envCall.name)
  /\ envCall.found = envs[1].variables_[envCall.name].value

(***************************************************************************)
(* Properties of a run.                                                    *)
(***************************************************************************)
\* the live heap objects the tree-walker holds: the values of the variables of
\* the environments on the chain of current_env_ and of the global
\* environment, and the values its activations have evaluated and keep in
\* their locals (the earlier elements of an array literal, the earlier
\* arguments of a call, the left operand of a binary operator)
HeldByTreeWalker ==
  {p \in ObjIds :
     \/ \E e \in Range(Chain(envs, current_env_)) \cup Range(Chain(envs, GlobalEnv)) :
          \E n \in DOMAIN envs[e].variables_ : envs[e].variables_[n].value = make_gc_ptr(p)
     \/ \E i \in 1..Len(callStack) : make_gc_ptr(p) \in Range(callStack[i].vals)}

\* C2: while the tree-walker runs, every allocation leaves alive every object
\* referenced from an environment of the active chain or held as an
\* already-evaluated intermediate of the expression under evaluation.
C2_ReachableSurvivesAllocation ==
  [][(Running("tree") /\ op' \in {"allocate", "allocate_gc"}) =>
       \A p \in HeldByTreeWalker : p \in Range(objects_')]_vars

\* C3: the allocation of BUILD_ARRAY destroys none of the values it is about
\* to store in the new array (the operand-many values on top of the stack
\* when the instruction is fetched).
C3_ElementsSurviveBuildArray ==
  [][Executing("BUILD_ARRAY") =>
       \A i \in 1..CurrentInstruction.operand :
         (Len(stack_) >= i /\ is_gc_ptr(stack_[Len(stack_) - i + 1])
            /\ as_gc_ptr(stack_[Len(stack_) - i + 1]) \in ObjIds)
           => as_gc_ptr(stack_[Len(stack_) - i + 1]) \in Range(objects_')]_vars

\* the node is built from the constructs both paths accept: literals, let/var
\* declarations, assignment, arithmetic, blocks, array literals and calls to
\* built-ins
RECURSIVE CommonConstructs(_)
CommonConstructs(n) ==
  CASE n.type \in {"INTEGER_LITERAL", "STRING_LITERAL", "IDENTIFIER"} -> TRUE
    [] n.type = "BINARY_EXPRESSION" -> CommonConstructs(n.left) /\ CommonConstructs(n.right)
    [] n.type = "ASSIGNMENT_EXPRESSION" ->
         n.target.type = "IDENTIFIER" /\ CommonConstructs(n.value)
    [] n.type = "ARRAY_LITERAL" ->
         \A i \in 1..Len(n.elements) : CommonConstructs(n.elements[i])
    [] n.type = "CALL_EXPRESSION" ->
         /\ n.function.type = "IDENTIFIER" /\ n.function.name \in Range(BuiltinNames)
         /\ \A i \in 1..Len(n.arguments) : CommonConstructs(n.arguments[i])
    [] n.type = "EXPRESSION_STATEMENT" -> CommonConstructs(n.expression)
    [] n.type = "VARIABLE_STATEMENT" -> CommonConstructs(n.value)
    [] n.type \in {"BLOCK_STATEMENT", "PROGRAM"} ->
         \A i \in 1..Len(n.statements) : CommonConstructs(n.statements[i])
    [] OTHER -> FALSE

\* C8: a program of the common constructs that ran to an outcome under the
\* tree-walker and, compiled, under the VM has the same outcome (success or
\* runtime error), the same printed output and the same final value on both.
C8_SameOutcomeOnBothPaths ==
  (/\ CommonConstructs(program)
   /\ path = "bytecode" /\ status \in {"ok", "error"}
   /\ treeOutcome.status \in {"ok", "error"})
    => Outcome = treeOutcome

\* the program declares name with `let` at top level
LetDeclared(name) ==
  \E i \in 1..Len(program.statements) :
    /\ program.statements[i].type = "VARIABLE_STATEMENT"
    /\ program.statements[i].name.name = name
    /\ ~program.statements[i].is_mutable

\* C13: on both paths an assignment to a variable declared with `let` fails
\* (tree-walker: with ImmutableAssignment; VM: STORE_VAR ends the run in a
\* runtime error) and leaves every binding as it was.
C13_AssignmentToLetFails ==
  [][/\ (Evaluating({"ASSIGNMENT_EXPRESSION"}) /\ TopFrame.pc = 1
          /\ LetDeclared(TopFrame.node.target.name))
         => (status' = "error" /\ error_message' = "ImmutableAssignment" /\ envs' = envs)
     /\ (Executing("STORE_VAR")
          /\ CurrentInstruction.operand < Len(chunk.variable_names)
          /\ LetDeclared(chunk.variable_names[CurrentInstruction.operand + 1]))
         => (status' = "error" /\ envs' = envs)]_vars

(***************************************************************************)
(* Properties of a PEBBLObject.                                            *)
(***************************************************************************)
\* the type predicates that hold of the word
KindsOf(w) ==
  {k \in {"double", "int32", "bool", "null", "undefined", "gc_ptr"} :
     \/ k = "double" /\ PEBBLObject_is_double(w)
     \/ k = "int32" /\ PEBBLObject_is_int32(w)
     \/ k = "bool" /\ PEBBLObject_is_bool(w)
     \/ k = "null" /\ PEBBLObject_is_null(w)
     \/ k = "undefined" /\ PEBBLObject_is_undefined(w)
     \/ k = "gc_ptr" /\ PEBBLObject_is_gc_ptr(w)}

\* C14: of every 64-bit word, and of every value a factory makes, exactly one
\* of is_double, is_int32, is_bool, is_null, is_undefined, is_gc_ptr holds.
C14_ExactlyOneKind == Cardinality(KindsOf(bits)) = 1

(***************************************************************************)
(* Properties of a compiled chunk.                                         *)
(***************************************************************************)
\* the number of instructions a node compiles to, in the global scope or not
RECURSIVE CodeSize(_, _)
RECURSIVE CodeSizes(_, _)
CodeSize(node, global) ==
  CASE node.type = "BOOLEAN_LITERAL" -> 1
    [] node.type = "IF_ELSE_EXPRESSION" ->
         CodeSize(node.condition, global) + 1 + CodeSize(node.then_expression, global)
           + (IF node.else_expression # NoNode
              THEN 1 + CodeSize(node.else_expression, global) ELSE 1)
    [] node.type = "EXPRESSION_STATEMENT" ->
         CodeSize(node.expression, global) + (IF global THEN 0 ELSE 1)
    [] node.type = "WHILE_LOOP_STATEMENT" ->
         CodeSize(node.condition, FALSE) + 1 + CodeSize(node.block, FALSE) + 1
    [] node.type = "BLOCK_STATEMENT" -> CodeSizes(node.statements, FALSE)

CodeSizes(nodes, global) ==
  IF nodes = <<>> THEN 0
  ELSE CodeSize(Head(nodes), global) + CodeSizes(Tail(nodes), global)

\* the jumps of the code of a node that starts at index at, each as
\* <<index, opcode, target>>: a forward jump goes to the index that follows
\* the code it skips, the jump that closes a loop goes back to its condition
RECURSIVE SkipTargets(_, _, _)
RECURSIVE SkipTargetsEach(_, _, _)
IfElseTargets(node, at, global, else_jump, end_jump) ==
  SkipTargets(node.condition, at, global)
    \cup SkipTargets(node.then_expression, else_jump + 1, global)
    \cup (IF node.else_expression # NoNode
          THEN {<<else_jump, "JUMP_IF_FALSE", end_jump + 1>>,
                <<end_jump, "JUMP",
                  end_jump + 1 + CodeSize(node.else_expression, global)>>}
                 \cup SkipTargets(node.else_expression, end_jump + 1, global)
          ELSE {<<else_jump, "JUMP_IF_FALSE", end_jump>>})

WhileTargets(node, at, exit_jump, back_jump) ==
  SkipTargets(node.condition, at, FALSE)
    \cup SkipTargets(node.block, exit_jump + 1, FALSE)
    \cup {<<exit_jump, "JUMP_IF_FALSE", back_jump + 1>>, <<back_jump, "JUMP", at>>}

SkipTargets(node, at, global) ==
  CASE node.type = "BOOLEAN_LITERAL" -> {}
    [] node.type = "IF_ELSE_EXPRESSION" ->
         IfElseTargets(node, at, global,
                       at + CodeSize(node.condition, global),
                       at + CodeSize(node.condition, global) + 1
                          + CodeSize(node.then_expression, global))
    [] node.type = "EXPRESSION_STATEMENT" -> SkipTargets(node.expression, at, global)
    [] node.type = "WHILE_LOOP_STATEMENT" ->
         WhileTargets(node, at,
                      at + CodeSize(node.condition, FALSE),
                      at + CodeSize(node.condition, FALSE) + 1
                         + CodeSize(node.block, FALSE))
    [] node.type = "BLOCK_STATEMENT" -> SkipTargetsEach(node.statements, at, FALSE)

SkipTargetsEach(nodes, at, global) ==
  IF nodes = <<>> THEN {}
  ELSE SkipTargets(Head(nodes), at, global)
         \cup SkipTargetsEach(Tail(nodes), at + CodeSize(Head(nodes), global), global)

JumpOpcodes == {"JUMP", "JUMP_IF_FALSE", "JUMP_IF_TRUE"}

\* the jumps of a chunk, each as <<index, opcode, operand>>
JumpsOf(ch) ==
  {<<i - 1, ch.instructions[i].opcode, ch.instructions[i].operand>> :
     i \in {j \in 1..Len(ch.instructions) : ch.instructions[j].opcode \in JumpOpcodes}}

\* C15: in every chunk the compiler returns, the operand of each jump is the
\* index of an instruction of the chunk, and each forward jump emitted with
\* the placeholder 0 has been patched to the index of the instruction that
\* follows the code it skips, however if/else and while are nested.
C15_JumpsPatchedInRange ==
  status = "compiled" =>
    /\ \A jump \in JumpsOf(chunk) : 0 <= jump[3] /\ jump[3] < Len(chunk.instructions)
    /\ JumpsOf(chunk) = SkipTargetsEach(program.statements, 0, TRUE)

\* a while whose body holds an if with an else has been compiled, followed by
\* a second statement: the chunk has a forward and a backward JUMP
C15_Witness ==
  /\ status = "compiled"
  /\ Len(program.statements) = 2
  /\ program.statements[1].type = "WHILE_LOOP_STATEMENT"
  /\ program.statements[1].block.statements[1].type = "EXPRESSION_STATEMENT"
  /\ program.statements[1].block.statements[1].expression.type = "IF_ELSE_EXPRESSION"
  /\ program.statements[1].block.statements[1].expression.else_expression # NoNode
  /\ \E jump \in JumpsOf(chunk) : jump[2] = "JUMP" /\ jump[3] > jump[1]
  /\ \E jump \in JumpsOf(chunk) : jump[2] = "JUMP" /\ jump[3] < jump[1]

(***************************************************************************)
(* Properties of a call.                                                   *)
(***************************************************************************)
\* x is a builtin function that accepts argc arguments
AcceptedBy(x, argc) ==
  /\ is_gc_ptr(x) /\ as_gc_ptr(x) # DANGLING
  /\ tag[as_gc_ptr(x)] = "BUILTIN_FUNCTION"
  /\ BuiltinArity(text[as_gc_ptr(x)]) \in {SIZE_MAX, argc}

\* the VM is about to execute CALL argc with the callee below argc arguments
CallingVM(argc) ==
  /\ Executing("CALL") /\ CurrentInstruction.operand = argc
  /\ Len(stack_) > argc

\* C16: a CALL argc the VM executes on a callee that accepts argc arguments
\* completes, and the stack is then argc shorter than before the CALL: the
\* callee and the arguments are gone and one return value is pushed.
C16_CallLeavesOneValue ==
  [][\A argc \in 0..2 :
       (CallingVM(argc) /\ AcceptedBy(stack_[Len(stack_) - argc], argc))
         => (status' = "running" /\ ~has_error_' /\ Len(stack_') = Len(stack_) - argc)]_vars

\* x is neither a Function nor a BuiltinFunction
NotCallable(x) ==
  \/ ~is_gc_ptr(x)
  \/ as_gc_ptr(x) # DANGLING /\ tag[as_gc_ptr(x)] \notin {"FUNCTION", "BUILTIN_FUNCTION"}

\* x is a builtin of fixed arity, and the arity is not argc
ArityMismatch(x, argc) ==
  /\ is_gc_ptr(x) /\ as_gc_ptr(x) # DANGLING
  /\ tag[as_gc_ptr(x)] = "BUILTIN_FUNCTION"
  /\ BuiltinArity(text[as_gc_ptr(x)]) \notin {SIZE_MAX, argc}

Variadic(x) ==
  /\ is_gc_ptr(x) /\ as_gc_ptr(x) # DANGLING
  /\ tag[as_gc_ptr(x)] = "BUILTIN_FUNCTION"
  /\ BuiltinArity(text[as_gc_ptr(x)]) = SIZE_MAX

\* the run stops with the message, and nothing was printed or allocated
FailsUninvoked(messages) ==
  /\ status' = "error" /\ error_message' \in messages
  /\ output' = output /\ object_count_' = object_count_

\* the tree-walker has evaluated the callee of a call with argc arguments
CallingTree(argc) ==
  /\ Evaluating({"CALL_EXPRESSION"}) /\ TopFrame.pc = 1
  /\ Len(TopFrame.node.arguments) = argc

C18_ErrorStopsTheVM ==
  [][/\ (path = "bytecode" /\ ~has_error_ /\ has_error_')
          => (status' = "error" /\ error_message' # "")
     /\ ~(path = "bytecode" /\ has_error_)
     /\ (path' = "bytecode" /\ status' = "ok") => ~has_error_']_vars

\* LOAD_VAR of an unbound name has failed with the rest of the chunk, a
\* LOAD_CONST and more, not run
C18_Witness ==
  /\ path = "bytecode" /\ status = "error" /\ has_error_
  /\ error_message = "Undefined variable"
  /\ Len(chunk.instructions) > 2 /\ chunk.instructions[2].opcode = "LOAD_CONST"
  /\ stack_ = <<>> /\ ~ENABLED VM_LOAD_CONST

\* the VM has just executed a RETURN in its outermost frame
ReturnedAtTopLevel ==
  /\ Running("bytecode") /\ Len(frames_) = 1
  /\ Last(frames_).instruction_pointer > 0
  /\ Last(frames_).instruction_pointer <= Len(chunk.instructions)
  /\ chunk.instructions[Last(frames_).instruction_pointer].opcode = "RETURN"

\* C19: a return at top level ends the program with the returned value as
\* its result. On the tree-walker, once has_return_ is set the activations
\* only unwind and the result is return_value_; on the VM, RETURN in the
\* outermost frame leaves the returned value on top and the next step ends
\* the run with it, so that no instruction of a later statement is executed.
C19_TopLevelReturnEndsTheRun ==
  [][/\ (Running("tree") /\ has_return_)
          => /\ Len(callStack') < Len(callStack)
             /\ output' = output /\ envs' = envs
             /\ status' \in {"running", "ok"}
             /\ status' = "ok" => retval' = return_value_
     /\ (Executing("RETURN") /\ Len(frames_) = 1 /\ stack_ # <<>>)
          => (status' = "running" /\ stack_' = stack_)
     /\ ReturnedAtTopLevel => (status' = "ok" /\ retval' = Last(stack_))]_vars

(***************************************************************************)
(* Properties of the VM's value stack.                                     *)
(***************************************************************************)
StackUnchanged(m) == m.stack_ = stack_

\* C20: the value stack of the VM never holds more than STACK_MAX values; in
\* every state a push on a full stack raises a stack overflow and leaves the
\* stack as it is, where there is room it appends the value and raises
\* nothing, and a pop or a peek deeper than the stack raises a stack
\* underflow, returns null and leaves the stack as it is.
C20_StackStaysInBounds ==
  path = "bytecode" =>
    /\ Len(stack_) <= STACK_MAX
    /\ With(VM_push(Machine, make_int32(1)), LAMBDA pushed :
         IF Len(stack_) >= STACK_MAX
         THEN /\ pushed.has_error_ /\ pushed.error_message = "Stack overflow"
              /\ StackUnchanged(pushed)
         ELSE /\ pushed.has_error_ = has_error_
              /\ pushed.stack_ = Append(stack_, make_int32(1)))
    /\ With(VM_pop(Machine), LAMBDA popped :
         IF stack_ = <<>>
         THEN /\ popped.m.has_error_ /\ popped.m.error_message = "Stack underflow"
              /\ popped.value = make_null /\ StackUnchanged(popped.m)
         ELSE /\ popped.m.has_error_ = has_error_
              /\ popped.value = Last(stack_) /\ popped.m.stack_ = Front(stack_))
    /\ \A distance \in 0..(Len(stack_) + 1) :
         With(VM_peek(Machine, distance), LAMBDA peeked :
           /\ StackUnchanged(peeked.m)
           /\ IF distance >= Len(stack_)
              THEN /\ peeked.m.has_error_
                   /\ peeked.m.error_message = "Stack underflow in peek"
                   /\ peeked.value = make_null
              ELSE /\ peeked.m.has_error_ = has_error_
                   /\ peeked.value = stack_[Len(stack_) - distance])

\* the LOAD_CONST after STACK_MAX others has failed on the full stack
C20_Witness ==
  /\ path = "bytecode" /\ status = "error" /\ error_message = "Stack overflow"
  /\ Len(stack_) = STACK_MAX
  /\ Len(chunk.instructions) > STACK_MAX + 1
  /\ chunk.instructions[STACK_MAX + 1].opcode = "LOAD_CONST"

(***************************************************************************)
(* Properties of user functions, blocks and for-in loops (SpecTree).       *)
(***************************************************************************)
\* std::vector<CallFrame>::reserve(FRAMES_MAX) in the constructor of the VM
FRAMES_MAX == 64

\* C21: recursion without end stops with a StackOverflow runtime error: the
\* number of nested evaluate_call activations that execute the body of a
\* user function never exceeds the bound of the call frames, and the run
\* does not end in the exhaustion of the host stack.
C21_RecursionDepthBounded ==
  /\ CallDepth(Machine) <= FRAMES_MAX
  /\ status # "undefined"

\* the environments a lookup that starts in e goes through
RECURSIVE EnvChain(_, _)
EnvChain(E, e) == IF e = NULL THEN {} ELSE {e} \cup EnvChain(E, E[e].parent_)

\* every name bound in some environment
NamesBound(E) == UNION {DOMAIN E[e].variables_ : e \in 1..Len(E)}

\* the PEBBLFunction an activation of evaluate_call has called
CalleeOf(f) == functions[as_gc_ptr(f.vals[1])]

\* a function of that name has been created
Created(name) == \E o \in ObjIds : tag[o] = "FUNCTION" /\ text[o] = name

\* C27: name lookup inside a called function is lexically scoped. For every
\* activation of evaluate_call that executes a body, the parent of the call
\* environment is the closure of the callee, every name the call environment
\* does not bind itself resolves as it does in the closure, and no
\* environment that only the caller's chain holds is on the callee's chain;
\* the two calls of g in `let x = 1; func g() { return x; } { let x = 2;
\* print(g()); } print(g());`, made from a block that binds its own x and
\* from the top level, print the same value.
C27_LexicalScoping ==
  /\ \A i \in 1..(Len(callStack) - 1) :
       ExecutingBody(callStack[i]) =>
         LET fn == CalleeOf(callStack[i])
             call_env == callStack[i + 1].env
             caller == callStack[i].saved.prev_env
         IN /\ envs[call_env].parent_ = fn.closure
            /\ \A n \in NamesBound(envs) :
                 ~Binds(envs, call_env, n) =>
                   Env_get(envs, call_env, n) = Env_get(envs, fn.closure, n)
            /\ EnvChain(envs, call_env)
                 \cap (EnvChain(envs, caller) \ EnvChain(envs, fn.closure)) = {}
  /\ (path = "tree" /\ status = "ok" /\ Created("g")) =>
       (Len(output) = 2 /\ output[1] = output[2])

\* g, called from the block whose own x is 2, has found the x of its closure
C27_Witness ==
  /\ Running("tree") /\ Created("g")
  /\ \E i \in 1..(Len(callStack) - 1) :
       /\ ExecutingBody(callStack[i])
       /\ callStack[i].saved.prev_env # CalleeOf(callStack[i]).closure
       /\ Binds(envs, callStack[i].saved.prev_env, "x")
       /\ Env_get(envs, callStack[i].saved.prev_env, "x").value = make_int32(2)
  /\ TopFrame.node.type = "RETURN_STATEMENT" /\ TopFrame.pc = 1
  /\ retval = make_int32(1)

\* the activation of execute_block_statement has pushed its environment
InsideBlock(f) == f.node.type = "BLOCK_STATEMENT" /\ f.pc >= 1

\* no activation below the i-th changes current_env_ when an exception passes
OutermostScope(i) ==
  \A j \in 1..(i - 1) :
    ~InsideBlock(callStack[j]) /\ ~InsideLoop(callStack[j]) /\ ~ExecutingBody(callStack[j])

\* C28: when a block statement has finished, current_env_ is the environment
\* that was current just before the block was entered. When the activation of
\* a block returns, at its end or after a return statement, current_env_ is
\* what it was when the activation began; at every depth, the catch blocks
\* from the innermost activation up to that of a block leave current_env_ as
\* it was when that block began; and a runtime error leaves current_env_ as
\* it was before the outermost block.
C28_BlockRestoresEnvironment ==
  [][/\ (/\ Evaluating({"BLOCK_STATEMENT"})
         /\ status' = "running" /\ Len(callStack') = Len(callStack) - 1)
          => current_env_' = TopFrame.env
     /\ Running("tree") =>
          \A i \in 1..Len(callStack) :
            InsideBlock(callStack[i]) =>
              /\ UnwoundEnv(envs, SubSeq(callStack, i, Len(callStack)), current_env_)
                   = callStack[i].env
              /\ (status' = "error" /\ OutermostScope(i)) => current_env_' = callStack[i].env
    ]_vars

\* the undefined variable of `{ { y; } }` or of the body of h in
\* `func h() { { y; } } { h(); }` has ended the run two blocks deep, and the
\* global environment is current again
C28_Witness ==
  /\ path = "tree" /\ status = "error" /\ error_message = "Undefined variable"
  /\ Len(envs) >= 4
  /\ \A e \in 3..Len(envs) : envs[e].parent_ # NULL
  /\ current_env_ = GlobalEnv

\* the iterable of the innermost activation, one of execute_for_statement
ForIterable == IF TopFrame.pc = 1 THEN retval ELSE TopFrame.vals[1]

\* execute_for_statement is about to give the next element of an Array its turn
NextElementDue ==
  /\ Evaluating({"FOR_LOOP_STATEMENT"}) /\ TopFrame.pc >= 1
  /\ is_gc_ptr(ForIterable) /\ as_gc_ptr(ForIterable) # DANGLING
  /\ tag[as_gc_ptr(ForIterable)] = "ARRAY"
  /\ TopFrame.pc <= Len(elements[as_gc_ptr(ForIterable)])
  /\ ~(TopFrame.pc >= 2 /\ has_return_)

\* C29: a for-in loop over an Array executes its body once per element, in
\* index order, with the loop variable bound to that element: whenever an
\* element is due, the next step starts the body with the loop variable
\* resolving to that element. A loop over a value that is neither an Array
\* nor a Dict ends in an error without the body being started, and when the
\* loop is over current_env_ is what it was before the loop.
C29_ForInVisitsEveryElement ==
  [][/\ NextElementDue =>
          /\ status' = "running"
          /\ Len(callStack') = Len(callStack) + 1
          /\ callStack'[Len(callStack')].node = TopFrame.node.body
          /\ Env_get(envs', current_env_', TopFrame.node.identifier.name).value
               = elements[as_gc_ptr(ForIterable)][TopFrame.pc]
     /\ (/\ Evaluating({"FOR_LOOP_STATEMENT"}) /\ TopFrame.pc >= 1
         /\ ~(is_gc_ptr(ForIterable) /\ as_gc_ptr(ForIterable) # DANGLING
              /\ tag[as_gc_ptr(ForIterable)] = "ARRAY"))
          => status' \in {"error", "undefined"}
     /\ (/\ Evaluating({"FOR_LOOP_STATEMENT"}) /\ TopFrame.pc >= 1
         /\ status' = "running" /\ Len(callStack') = Len(callStack) - 1)
          => current_env_' = TopFrame.env
    ]_vars

(***************************************************************************)
(* Properties of the operators (SpecOps).                                  *)
(***************************************************************************)
\* evaluate_binary has evaluated both operands of one of these operators
TreeApplies(tokens) ==
  /\ Evaluating({"BINARY_EXPRESSION"}) /\ TopFrame.pc = 2
  /\ TopFrame.node.operator_token \in tokens

TreeLeft == TopFrame.vals[1]

TreeRight == retval

\* the VM is about to execute one of these opcodes with two values on the stack
VMApplies(opcodes) ==
  /\ Running("bytecode") /\ frames_ # <<>>
  /\ Last(frames_).instruction_pointer < Len(chunk.instructions)
  /\ CurrentInstruction.opcode \in opcodes
  /\ Len(stack_) >= 2

VMLeft == stack_[Len(stack_) - 1]

VMRight == stack_[Len(stack_)]

ArithmeticOpcodes == {"ADD", "SUBTRACT", "MULTIPLY", "DIVIDE"}

OrderingOpcodes == {"LESS", "GREATER", "LESS_EQUAL", "GREATER_EQUAL"}

IsZero(x) == (is_int32(x) \/ is_double(x)) /\ DoubleEqual(Number(x), Finite(0))

\* the variant the result of an arithmetic operation on two numbers has
ArithmeticVariant(operation, left, right) ==
  IF is_int32(left) /\ is_int32(right) /\ operation \notin {"SLASH", "DIVIDE"}
  THEN "INT32" ELSE "DOUBLE"

\* C22: ADD, SUBTRACT and MULTIPLY of two int32 give an int32, DIVIDE by a
\* divisor that is not zero gives a double, and every operation with a double
\* operand gives a double: on both paths the step that applies the operator
\* to two numbers succeeds with a result of that variant, and the result of
\* the tree-walker is the one the VM computes for the same operands.
C22_ArithmeticResultVariant ==
  [][/\ (/\ TreeApplies(ArithmeticTokens) /\ BothNumbers(TreeLeft, TreeRight)
         /\ ~(TopFrame.node.operator_token = "SLASH" /\ IsZero(TreeRight)))
          => /\ status' = "running"
             /\ retval'.t = ArithmeticVariant(TopFrame.node.operator_token, TreeLeft, TreeRight)
             /\ retval' = VM_perform_numeric_operation(
                            TreeLeft, TreeRight,
                            binary_op_to_opcode(TopFrame.node.operator_token)).result
     /\ (/\ VMApplies(ArithmeticOpcodes) /\ BothNumbers(VMLeft, VMRight)
         /\ ~(CurrentInstruction.opcode = "DIVIDE" /\ IsZero(VMRight)))
          => /\ status' = "running"
             /\ Len(stack_') = Len(stack_) - 1
             /\ Last(stack_').t = ArithmeticVariant(CurrentInstruction.opcode, VMLeft, VMRight)
    ]_vars

IsNumber(x) == is_int32(x) \/ is_double(x)

\* evaluate_unary has evaluated the operand of a negation
TreeNegates ==
  /\ Evaluating({"UNARY_EXPRESSION"}) /\ TopFrame.pc = 1
  /\ TopFrame.node.operator_token = "MINUS"

\* the VM is about to execute NEGATE with a value on the stack
VMNegates ==
  /\ Running("bytecode") /\ frames_ # <<>>
  /\ Last(frames_).instruction_pointer < Len(chunk.instructions)
  /\ CurrentInstruction.opcode = "NEGATE"
  /\ Len(stack_) >= 1

\* C23: the arithmetic operators (the divisor not zero), the negation and the
\* four ordering comparisons fail when an operand is neither an int32 nor a
\* double, whatever the other operand is: on both paths the step that applies
\* the operator ends the run in an error, and the VM pushes no result.
C23_NonNumericOperandFails ==
  [][/\ (/\ TreeApplies(ArithmeticTokens \cup OrderingTokens)
         /\ ~BothNumbers(TreeLeft, TreeRight)
         /\ ~(TopFrame.node.operator_token = "SLASH" /\ IsZero(TreeRight)))
          => status' = "error"
     /\ (TreeNegates /\ ~IsNumber(retval)) => status' = "error"
     /\ (/\ VMApplies(ArithmeticOpcodes \cup OrderingOpcodes)
         /\ ~BothNumbers(VMLeft, VMRight)
         /\ ~(CurrentInstruction.opcode = "DIVIDE" /\ IsZero(VMRight)))
          => status' = "error" /\ Len(stack_') = Len(stack_) - 2
     /\ (VMNegates /\ ~IsNumber(Last(stack_)))
          => status' = "error" /\ Len(stack_') = Len(stack_) - 1
    ]_vars

EqualValues(left, right) ==
  \/ is_null(left) /\ is_null(right)
  \/ is_bool(left) /\ is_bool(right) /\ as_bool(left) = as_bool(right)
  \/ IsNumber(left) /\ IsNumber(right) /\ DoubleEqual(Number(left), Number(right))
  \/ is_gc_ptr(left) /\ is_gc_ptr(right) /\ as_gc_ptr(left) = as_gc_ptr(right)

EffectsProgram == program.statements[1].name.name = "x"

\* the value a literal evaluates to
LiteralValue(node) ==
  IF node.type = "INTEGER_LITERAL" THEN make_int32(node.value) ELSE make_bool(node.value)

EffectLeftValue == LiteralValue(program.statements[2].expression.left.value)

EffectRightValue == LiteralValue(program.statements[2].expression.right.value)

\* the value x has in the global environment of the path that runs
ValueOfX ==
  With(IF path = "tree" THEN GlobalEnv ELSE VMGlobalEnv, LAMBDA e :
    IF Len(envs) >= e /\ Binds(envs, e, "x") THEN envs[e].variables_["x"].value
    ELSE make_null)

BinaryOpcodes ==
  ArithmeticOpcodes \cup OrderingOpcodes \cup {"EQUAL", "NOT_EQUAL", "AND", "OR"}

\* C26: both operands of a binary operator, AND and OR included, are
\* evaluated exactly once, the left one before the right one and both before
\* the operator is applied, on both paths.  evaluate_binary always goes on to
\* its left and then to its right operand; in `(x = l) op (x = r)` x takes the
\* value l and then the value r and changes in no other way, whatever the
\* truthiness of l; and when the operator is applied x holds r.
C26_OperandsEvaluatedInOrder ==
  [][/\ (Evaluating({"BINARY_EXPRESSION"}) /\ TopFrame.pc < 2)
          => /\ status' = "running"
             /\ Len(callStack') = Len(callStack) + 1
             /\ callStack'[Len(callStack)].pc = TopFrame.pc + 1
             /\ callStack'[Len(callStack')].pc = 0
             /\ callStack'[Len(callStack')].node.type
                  = (IF TopFrame.pc = 0 THEN TopFrame.node.left.type
                     ELSE TopFrame.node.right.type)
     /\ (EffectsProgram /\ path = path' /\ ValueOfX' # ValueOfX)
          => \/ ValueOfX = make_null /\ ValueOfX' = make_int32(0)
             \/ ValueOfX = make_int32(0) /\ ValueOfX' = EffectLeftValue
             \/ ValueOfX = EffectLeftValue /\ ValueOfX' = EffectRightValue
     /\ (EffectsProgram /\ TreeApplies(ArithmeticTokens \cup OrderingTokens
                                         \cup {"EQUAL", "NOT_EQUAL", "AND", "OR"}))
          => /\ ValueOfX = EffectRightValue
             /\ TreeLeft = EffectLeftValue /\ TreeRight = EffectRightValue
     /\ (EffectsProgram /\ VMApplies(BinaryOpcodes))
          => ValueOfX = EffectRightValue
    ]_vars

\* the tree-walker has evaluated `(x = false) and (x = 2)`: the result is
\* false and x holds 2
C26_Witness ==
  /\ EffectsProgram /\ path = "tree" /\ status = "ok"
  /\ program.statements[2].expression.operator_token = "AND"
  /\ EffectLeftValue = make_bool(FALSE)
  /\ retval = make_bool(FALSE)
  /\ ValueOfX = EffectRightValue

\* C30: the bytecode of an assignment expression assigns the value and
\* leaves exactly one copy of it on the stack: when the VM applies the
\* operator of `(x = l) op (x = r)`, the stack, empty before the statement,
\* holds the value l and the value r and nothing else.
C30_AssignmentLeavesOneValue ==
  (EffectsProgram /\ VMApplies(BinaryOpcodes))
    => stack_ = <<EffectLeftValue, EffectRightValue>>

(***************************************************************************)
(* Properties of the bytecode of if/else expressions (SpecOps).            *)
(***************************************************************************)
\* the program is `let s = "a"; if c { 1 } else { 2 };` or the same without
\* the else branch
IfElseProgram == program.statements[2].expression.type = "IF_ELSE_EXPRESSION"

\* the truthiness of the condition of the if program, a literal or s
ConditionTruthy ==
  With(program.statements[2].expression.condition, LAMBDA c :
    CASE c.type \in {"INTEGER_LITERAL", "FLOAT_LITERAL"} -> c.value # 0
      [] c.type = "BOOLEAN_LITERAL" -> c.value
      [] OTHER -> TRUE)

\* the value the if/else expression of the if program has
IfElseValue ==
  IF ConditionTruthy THEN make_int32(1)
  ELSE IF program.statements[2].expression.else_expression.type # "NONE"
  THEN make_int32(2)
  ELSE make_null

\* C31: the bytecode of an if/else expression consumes the condition and
\* leaves exactly one value, that of the branch the condition selects, or
\* nil when the condition is falsy and there is no else branch: when the VM
\* reaches the HALT of an if program its stack, empty before the statement,
\* holds that value and nothing else.
C31_IfElseLeavesOneValue ==
  (IfElseProgram /\ Executing("HALT")) => stack_ = <<IfElseValue>>

(***************************************************************************)
(* Properties of compiled while loops (SpecLoop).                          *)
(***************************************************************************)
\* the 0-based indices of the JUMPs that close a loop: they jump backwards
LoopJumps ==
  {i \in 0..(Len(chunk.instructions) - 1) :
     /\ chunk.instructions[i + 1].opcode = "JUMP"
     /\ chunk.instructions[i + 1].operand <= i}

\* loop_start of every loop of the chunk
LoopHeads == {chunk.instructions[i + 1].operand : i \in LoopJumps}

\* the instruction after every loop of the chunk
LoopExits == {i + 1 : i \in LoopJumps}

\* C32: the stack depth at the head of a compiled while loop is the same on
\* every iteration and the depth after the loop is the depth before it,
\* whatever the body contains.  In the loop programs the stack is empty
\* before every loop, so it is empty whenever the VM is at a loop head or at
\* the instruction after a loop.
C32_LoopKeepsStackDepth ==
  (/\ Running("bytecode") /\ frames_ # <<>>
   /\ Last(frames_).instruction_pointer \in LoopHeads \cup LoopExits)
    => stack_ = <<>>

(***************************************************************************)
(* Properties of BUILD_ARRAY (SpecRun).                                    *)
(***************************************************************************)
\* the values BUILD_ARRAY is about to store: the operand-many on top
BuildArrayValues ==
  SubSeq(stack_, Len(stack_) - CurrentInstruction.operand + 1, Len(stack_))

\* C33: BUILD_ARRAY n on a stack of at least n values pops exactly n values
\* and pushes one Array whose elements are those values, bottom-most first;
\* the rest of the stack is unchanged (BUILD_ARRAY 0 pushes an empty Array).
C33_BuildArrayStoresTheTopValues ==
  [][(Executing("BUILD_ARRAY") /\ CurrentInstruction.operand <= Len(stack_))
       => /\ status' = "running"
          /\ Len(stack_') = Len(stack_) - CurrentInstruction.operand + 1
          /\ SubSeq(stack_', 1, Len(stack_') - 1)
               = SubSeq(stack_, 1, Len(stack_) - CurrentInstruction.operand)
          /\ is_gc_ptr(Last(stack_'))
          /\ as_gc_ptr(Last(stack_')) \in Range(objects_')
          /\ tag'[as_gc_ptr(Last(stack_'))] = "ARRAY"
          /\ elements'[as_gc_ptr(Last(stack_'))] = BuildArrayValues
    ]_vars

(***************************************************************************)
(* Properties of the mark phase (Spec).                                    *)
(***************************************************************************)
\* what the mark phase of a collection started in this state does
MarkPhase == GCHeap_markNesting(Heap, RootPtrs)

\* C34: the mark phase does not recurse in proportion to the depth of the
\* object graph: for a chain of containers of any length, the invocations of
\* Tracer::mark active at once during a collection are never more than two,
\* the call made by GCHeap::mark and the call trace makes from inside its
\* loop, which is what a work list traced by the outermost call gives.
C34_MarkNestingBounded ==
  [][op' \in {"collect", "collect2"} => MarkPhase.depth <= 2]_vars

\* no object occurs twice in the sequence
NoRepeats(s) == \A i, j \in 1..Len(s) : s[i] = s[j] => i = j

\* C35: the mark phase terminates on every finite object graph, cycles
\* included: it hands every object to trace at most once, and only objects
\* reachable from the roots; when it returns the work list is empty and the
\* marked objects are exactly the reachable ones.
C35_MarkTracesEachObjectOnce ==
  [][op' \in {"collect", "collect2"}
       => With(MarkPhase.st, LAMBDA st :
            With(ReachableFromRoots, LAMBDA reachable :
              /\ st.worklist = <<>>
              /\ NoRepeats(st.traced)
              /\ Range(st.traced) = reachable
              /\ {o \in ObjIds : st.marked[o]} = reachable
              /\ st.marked = GCHeap_mark(Heap, RootPtrs)))
    ]_vars

\* a collection has run on a heap where a rooted Array contains itself or
\* two Arrays contain each other
C35_Witness ==
  /\ op \in {"collect", "collect2"}
  /\ \E o \in ReachableFromRoots : tag[o] = "ARRAY" /\ OnCycle(o)

(***************************************************************************)
(* Properties of the allocation list (Spec).                               *)
(***************************************************************************)
\* C36: outside a collection the live count is the number of objects linked
\* in the allocation list, the list holds every object that was allocated
\* and not yet swept exactly once, and no swept object is linked.
C36_ListHoldsTheLiveObjects ==
  /\ object_count_ = Len(objects_)
  /\ NoRepeats(objects_)
  /\ Range(objects_) = {o \in ObjIds : tag[o] # "NONE"}

\* a collection has ended with a survivor linked and, below its address, the
\* address of an object that was swept
C36_Witness ==
  /\ op \in {"collect", "collect2"}
  /\ object_count_ >= 1
  /\ \E o \in Range(objects_) : \E d \in ObjIds : d < o /\ tag[d] = "NONE"

(***************************************************************************)
(* Properties of the constant pool (SpecRun).                              *)
(***************************************************************************)

\* the String objects the compiler allocated for the literals of the chunk
StringConstants ==
  {as_gc_ptr(chunk.constants[i]) : i \in {j \in 1..Len(chunk.constants) :
                                            is_gc_ptr(chunk.constants[j])}}

\* C37: a String the compiler allocated for a literal and stored in the
\* constant pool is not destroyed by a collection before the chunk has been
\* executed: every pointer of the pool designates an object of the
\* allocation list, so LOAD_CONST never pushes a pointer to a destroyed object.
C37_ConstantStringsSurvive ==
  /\ StringConstants \subseteq Range(objects_)
  /\ (Executing("LOAD_CONST") /\ CurrentInstruction.operand < Len(chunk.constants)
        /\ is_gc_ptr(chunk.constants[CurrentInstruction.operand + 1]))
       => as_gc_ptr(chunk.constants[CurrentInstruction.operand + 1]) # DANGLING

(***************************************************************************)
(* Properties of the loop variable (SpecTree).                             *)
(***************************************************************************)
\* the binding that name resolves to from frame e: its value and mutability
RECURSIVE Binding(_, _, _)
Binding(E, e, name) ==
  IF Binds(E, e, name) THEN E[e].variables_[name]
  ELSE Binding(E, E[e].parent_, name)

\* C38: a for-in loop binds its loop variable in the loop's own environment
\* only: when the next element is bound and the scope that encloses the loop
\* already resolves the name of the loop variable, the step does not end in
\* an error, and the enclosing binding keeps its value and its mutability.
C38_LoopVariableIsLocal ==
  [][(NextElementDue /\ Env_exists(envs, TopFrame.env, TopFrame.node.identifier.name))
       => /\ status' = "running"
          /\ Binding(envs', TopFrame.env, TopFrame.node.identifier.name)
               = Binding(envs, TopFrame.env, TopFrame.node.identifier.name)
    ]_vars

(***************************************************************************)
(* Properties of the user-function call (SpecTree).                        *)
(***************************************************************************)
\* the activations of evaluate_call whose body is being executed
ActiveCalls == {i \in 1..Len(callStack) : ExecutingBody(callStack[i])}

\* the body of the call on top has finished and evaluate_call returns
CallReturns == Evaluating({"CALL_EXPRESSION"}) /\ ExecutingBody(TopFrame)

\* C39: when a user-function call finishes, current_env_, has_return_ and
\* return_value_ are what they were just before the call: after the end of
\* the body or a return, and the result of the call is then the returned
\* value, or the body's last value when no return ran; after a runtime
\* error inside the body, once every active call has restored its state.
C39_CallRestoresTheCallerState ==
  [][/\ CallReturns =>
          /\ status' = "running"
          /\ Len(callStack') = Len(callStack) - 1
          /\ current_env_' = TopFrame.env
          /\ current_env_' = TopFrame.saved.prev_env
          /\ has_return_' = TopFrame.saved.prev_return
          /\ return_value_' = TopFrame.saved.prev_return_value
          /\ retval' = IF has_return_ THEN return_value_ ELSE retval
     /\ (status = "running" /\ status' = "error" /\ ActiveCalls # {}) =>
          /\ has_return_' = callStack[Min(ActiveCalls)].saved.prev_return
          /\ return_value_' = callStack[Min(ActiveCalls)].saved.prev_return_value
          /\ current_env_' = GlobalEnv
    ]_vars

\* `{ r = k(1) + 1; } r;` has ended with the value 2: the return inside k
\* ended neither the addition nor the block nor the program
C39_Witness ==
  /\ program = TreePrograms[5]
  /\ path = "tree" /\ status = "ok"
  /\ retval = make_int32(2)
  /\ ~has_return_

====
